---- MODULE Spec2Model ----
(***************************************************************************)
(* Model of the proto symbol index (src/proto_indexer.py, ProtoIndex) and  *)
(* of the documents the parser (src/python-version/proto_parser.py) hands  *)
(* to it.                                                                  *)
(*                                                                         *)
(* Strings are sequences of one-character strings, so that concatenation,  *)
(* str.endswith and rsplit are computed on characters.  Python dicts are   *)
(* insertion-ordered: a dict is a sequence of <<key, value>> pairs.        *)
(* Python object identity is the field oid of an entity: the number of the *)
(* parse that created it, together with its kind and full_name position.   *)
(***************************************************************************)
EXTENDS Integers, Sequences, FiniteSets, TLC

VARIABLES files, services, messages, enums, search_entries, clock, log,
          call, stack, visited, lookups, frames,
          content, line_no, current_comment, lines, attached

vars == <<files, services, messages, enums, search_entries, clock, log,
          call, stack, visited, lookups, frames,
          content, line_no, current_comment, lines, attached>>

index_vars == <<files, services, messages, enums, search_entries>>

resolver_vars == <<call, stack, visited, lookups, frames>>

parser_vars == <<content, line_no, current_comment, lines, attached>>

(***************************************************************************)
(* Bounds of the model.                                                    *)
(***************************************************************************)
\* successful parses (fresh object identities) in one behaviour
MaxIngests == 3

\* mutating calls made before the queries of SpecQuery
MaxSetup == 2

\* frames of get_service / _resolve_message_types on the call stack
MaxStack == 7

(***************************************************************************)
(* Strings.                                                                *)
(***************************************************************************)
DOT == <<".">>

\* Python's None for an optional string (obj.comment); None and "" are both falsy
NoComment == <<>>

\* Python's None for an optional object
None == [none |-> TRUE]

EndsWith(s, t) ==
    /\ Len(t) <= Len(s)
    /\ SubSeq(s, Len(s) - Len(t) + 1, Len(s)) = t

Contains(s, c) == \E i \in 1..Len(s) : s[i] = c

\* the index of the last occurrence of character c in s, 0 when there is none
LastIndexOf(s, c) ==
    IF Contains(s, c)
    THEN CHOOSE i \in 1..Len(s) : s[i] = c /\ \A j \in (i+1)..Len(s) : s[j] # c
    ELSE 0

\* context_package.rsplit('.', 1)[0] if '.' in context_package else ''
PackagePrefix(context_package) ==
    IF Contains(context_package, ".")
    THEN SubSeq(context_package, 1, LastIndexOf(context_package, ".") - 1)
    ELSE <<>>

(***************************************************************************)
(* Insertion-ordered dicts.                                                *)
(***************************************************************************)
DictHas(d, k) == \E i \in 1..Len(d) : d[i][1] = k

\* position of key k in dict d, 0 when absent
DictIndex(d, k) ==
    IF DictHas(d, k)
    THEN CHOOSE i \in 1..Len(d) : d[i][1] = k /\ \A j \in 1..(i-1) : d[j][1] # k
    ELSE 0

DictKeys(d) == {d[i][1] : i \in 1..Len(d)}

\* d.get(k): the value, or None
DictGet(d, k) == IF DictHas(d, k) THEN d[DictIndex(d, k)][2] ELSE None

\* d[k] = v that puts the key last whether it is new or not
DictSetLast(d, k, v) == Append(SelectSeq(d, LAMBDA e : e[1] # k), <<k, v>>)

\* d[k] = v: an existing key keeps its position, a new key goes last
DictSet(d, k, v) ==
    IF DictHas(d, k)
    THEN [d EXCEPT ![DictIndex(d, k)] = <<k, v>>]
    ELSE Append(d, <<k, v>>)

\* d.pop(k, None) / del d[k]
DictPop(d, k) == SelectSeq(d, LAMBDA e : e[1] # k)

(***************************************************************************)
(* Source text of the sample files, at the level the parser extracts:      *)
(* the package statement and the service / message / enum blocks in        *)
(* declaration order.  A file that cannot be read or decoded is Unreadable.*)
(***************************************************************************)
T_string == <<"s","t","r","i","n","g">>

T_bool == <<"b","o","o","l">>

Primitives ==
    { T_string,
      <<"i","n","t","3","2">>, <<"i","n","t","6","4">>,
      <<"u","i","n","t","3","2">>, <<"u","i","n","t","6","4">>,
      <<"s","i","n","t","3","2">>, <<"s","i","n","t","6","4">>,
      <<"f","i","x","e","d","3","2">>, <<"f","i","x","e","d","6","4">>,
      <<"s","f","i","x","e","d","3","2">>, <<"s","f","i","x","e","d","6","4">>,
      T_bool, <<"b","y","t","e","s">>,
      <<"f","l","o","a","t">>, <<"d","o","u","b","l","e">> }

Unreadable == [readable |-> FALSE]

\* package a; service S { rpc G (U) returns (U); rpc H (Q) returns (R); }
\* message U { string n = 1; Z z = 2; R r = 3; }   enum R { X = 0; Y = 1; }
TextUsers ==
    [readable |-> TRUE, package |-> <<"a">>,
     services |-> << [name |-> <<"S">>, comment |-> <<"s","v","c">>,
                      rpcs |-> << [name |-> <<"G">>, request_type |-> <<"U">>,
                                   response_type |-> <<"U">>],
                                  [name |-> <<"H">>, request_type |-> <<"Q">>,
                                   response_type |-> <<"R">>] >>] >>,
     messages |-> << [name |-> <<"U">>, comment |-> NoComment,
                      nested_enums |-> <<>>,
                      fields |-> << [name |-> <<"n">>, type |-> T_string],
                                    [name |-> <<"z">>, type |-> <<"Z">>],
                                    [name |-> <<"r">>, type |-> <<"R">>] >>] >>,
     enums |-> << [name |-> <<"R">>, comment |-> NoComment,
                   values |-> << [name |-> <<"X">>], [name |-> <<"Y">>] >>] >>]

\* (no package) message U { U self = 1; }   enum A { X = 0; }
TextSelf ==
    [readable |-> TRUE, package |-> <<>>,
     services |-> <<>>,
     messages |-> << [name |-> <<"U">>, comment |-> <<"r","e","c">>,
                      nested_enums |-> <<>>,
                      fields |-> << [name |-> <<"s","e","l","f">>, type |-> <<"U">>] >>] >>,
     enums |-> << [name |-> <<"A">>, comment |-> NoComment,
                   values |-> << [name |-> <<"X">>] >>] >>]

\* package b.c; service T { rpc K (bool) returns (A); }
\* message U { A x = 1; }  message A { U u = 1; R k = 2; }
\* message bool { string v = 1; enum N { X = 0; } }
\* message P { U p = 1; A q = 2; }
TextCycle ==
    [readable |-> TRUE, package |-> <<"b",".","c">>,
     services |-> << [name |-> <<"T">>, comment |-> NoComment,
                      rpcs |-> << [name |-> <<"K">>, request_type |-> T_bool,
                                   response_type |-> <<"A">>] >>] >>,
     messages |-> << [name |-> <<"U">>, comment |-> NoComment,
                      nested_enums |-> <<>>,
                      fields |-> << [name |-> <<"x">>, type |-> <<"A">>] >>],
                     [name |-> <<"A">>, comment |-> NoComment,
                      nested_enums |-> <<>>,
                      fields |-> << [name |-> <<"u">>, type |-> <<"U">>],
                                    [name |-> <<"k">>, type |-> <<"R">>] >>],
                     [name |-> T_bool, comment |-> NoComment,
                      nested_enums |-> << [name |-> <<"N">>, comment |-> NoComment,
                                         values |-> << [name |-> <<"X">>] >>] >>,
                      fields |-> << [name |-> <<"v">>, type |-> T_string] >>],
                     [name |-> <<"P">>, comment |-> NoComment,
                      nested_enums |-> <<>>,
                      fields |-> << [name |-> <<"p">>, type |-> <<"U">>],
                                    [name |-> <<"q">>, type |-> <<"A">>] >>] >>,
     enums |-> <<>>]

Texts == {TextUsers, TextSelf, TextCycle, Unreadable}

\* the texts a scanned directory holds two of
DirTexts == {TextUsers, TextSelf, Unreadable}

Paths == {"p1.proto", "p2.proto"}

(***************************************************************************)
(* proto_parser: the entities of one parsed file.                          *)
(***************************************************************************)
\* the simple name alone, whatever the package
FullNameBare(package, name) == name

\* f"{package}.{name}" if package else name
FullName(package, name) ==
    IF package # <<>> THEN package \o DOT \o name ELSE name

ExtractServices(text, oid) ==
    [i \in 1..Len(text.services) |->
        [name |-> text.services[i].name,
         full_name |-> FullName(text.package, text.services[i].name),
         rpcs |-> text.services[i].rpcs,
         comment |-> text.services[i].comment,
         oid |-> oid]]

ExtractMessages(text, oid) ==
    [i \in 1..Len(text.messages) |->
        [name |-> text.messages[i].name,
         full_name |-> FullName(text.package, text.messages[i].name),
         fields |-> text.messages[i].fields,
         comment |-> text.messages[i].comment,
         oid |-> oid]]

\* the enum blocks of the text in the order of their position: those inside
\* the message bodies, then those after the messages
RECURSIVE NestedEnums(_)
NestedEnums(decls) ==
    IF decls = <<>> THEN <<>>
    ELSE Head(decls).nested_enums \o NestedEnums(Tail(decls))

EnumBlocks(text) == NestedEnums(text.messages) \o text.enums

ExtractEnums(text, oid) ==
    LET blocks == EnumBlocks(text)
    IN [i \in 1..Len(blocks) |->
           [name |-> blocks[i].name,
            full_name |-> FullName(text.package, blocks[i].name),
            values |-> blocks[i].values,
            comment |-> blocks[i].comment,
            oid |-> oid]]

\* parse_proto_file: open() / read() raise on an unreadable file
ParseProtoFile(file_path, text, oid) ==
    IF ~text.readable
    THEN [raised |-> TRUE]
    ELSE [raised |-> FALSE,
          file |-> [path |-> file_path,
                    package |-> text.package,
                    services |-> ExtractServices(text, oid),
                    messages |-> ExtractMessages(text, oid),
                    enums |-> ExtractEnums(text, oid),
                    oid |-> oid]]

(***************************************************************************)
(* ProtoIndex: the mutating operations, as functions of the index          *)
(* ix = [files, services, messages, enums, search_entries].                *)
(***************************************************************************)
EmptyIndex ==
    [files |-> <<>>, services |-> <<>>, messages |-> <<>>, enums |-> <<>>,
     search_entries |-> <<>>]

RECURSIVE PutAllKeepFirst(_, _)
\* for e in entities: table.setdefault(e.full_name, e)
PutAllKeepFirst(table, entities) ==
    IF entities = <<>> THEN table
    ELSE PutAllKeepFirst(
            IF DictHas(table, Head(entities).full_name) THEN table
            ELSE DictSet(table, Head(entities).full_name, Head(entities)),
            Tail(entities))

RECURSIVE PutAll(_, _)
\* for e in entities: table[e.full_name] = e
PutAll(table, entities) ==
    IF entities = <<>> THEN table
    ELSE PutAll(DictSet(table, Head(entities).full_name, Head(entities)),
                Tail(entities))

RECURSIVE PopAll(_, _)
\* for e in entities: table.pop(e.full_name, None)
PopAll(table, entities) ==
    IF entities = <<>> THEN table
    ELSE PopAll(DictPop(table, Head(entities).full_name), Tail(entities))

\* the tuples appended to _search_entries for one entity list
EntriesOf(entities, kind, file_path) ==
    [i \in 1..Len(entities) |->
        <<entities[i].full_name, kind, entities[i], file_path>>]

\* the index after a successful parse of file_path into proto_file
Ingested(ix, file_path, proto_file) ==
    [files |-> DictSet(ix.files, file_path, proto_file),
     services |-> PutAll(ix.services, proto_file.services),
     messages |-> PutAll(ix.messages, proto_file.messages),
     enums |-> PutAll(ix.enums, proto_file.enums),
     search_entries |->
         ix.search_entries
         \o EntriesOf(proto_file.services, "service", file_path)
         \o EntriesOf(proto_file.messages, "message", file_path)
         \o EntriesOf(proto_file.enums, "enum", file_path)]

\* index_file that logs the parse error and returns normally
IndexFileSwallow(ix, file_path, text, oid) ==
    LET parsed == ParseProtoFile(file_path, text, oid) IN
    IF parsed.raised
    THEN [ix |-> ix, raised |-> FALSE]
    ELSE [ix |-> Ingested(ix, file_path, parsed.file), raised |-> FALSE]

\* index_file: [ix |-> the index afterwards, raised |-> whether it raised]
IndexFileOp(ix, file_path, text, oid) ==
    LET parsed == ParseProtoFile(file_path, text, oid) IN
    IF parsed.raised
    THEN [ix |-> ix, raised |-> TRUE]
    ELSE [ix |-> Ingested(ix, file_path, parsed.file), raised |-> FALSE]

\* remove_file whose early return is missing: self.files[file_path] raises
RemoveFileUnguarded(ix, file_path) ==
    IF ~DictHas(ix.files, file_path)
    THEN [ix |-> ix, raised |-> TRUE]
    ELSE LET proto_file == DictGet(ix.files, file_path) IN
         [raised |-> FALSE,
          ix |-> [files |-> DictPop(ix.files, file_path),
                  services |-> PopAll(ix.services, proto_file.services),
                  messages |-> PopAll(ix.messages, proto_file.messages),
                  enums |-> PopAll(ix.enums, proto_file.enums),
                  search_entries |->
                      SelectSeq(ix.search_entries,
                                LAMBDA entry : entry[4] # file_path)]]

\* remove_file that leaves _search_entries alone
RemoveFileKeepEntries(ix, file_path) ==
    IF ~DictHas(ix.files, file_path)
    THEN [ix |-> ix, raised |-> FALSE]
    ELSE LET proto_file == DictGet(ix.files, file_path) IN
         [raised |-> FALSE,
          ix |-> [files |-> DictPop(ix.files, file_path),
                  services |-> PopAll(ix.services, proto_file.services),
                  messages |-> PopAll(ix.messages, proto_file.messages),
                  enums |-> PopAll(ix.enums, proto_file.enums),
                  search_entries |-> ix.search_entries]]

\* remove_file: [ix |-> the index afterwards, raised |-> whether it raised]
RemoveFileOp(ix, file_path) ==
    IF ~DictHas(ix.files, file_path)
    THEN [ix |-> ix, raised |-> FALSE]
    ELSE LET proto_file == DictGet(ix.files, file_path) IN
         [raised |-> FALSE,
          ix |-> [files |-> DictPop(ix.files, file_path),
                  services |-> PopAll(ix.services, proto_file.services),
                  messages |-> PopAll(ix.messages, proto_file.messages),
                  enums |-> PopAll(ix.enums, proto_file.enums),
                  search_entries |->
                      SelectSeq(ix.search_entries,
                                LAMBDA entry : entry[4] # file_path)]]

RECURSIVE IndexListingStop(_, _, _, _)
\* the loop of index_directory leaving at the first file that fails
IndexListingStop(ix, listing, oid, count) ==
    IF listing = <<>> THEN [ix |-> ix, count |-> count]
    ELSE LET r == IndexFileOp(ix, Head(listing)[1], Head(listing)[2], oid) IN
         IF r.raised
         THEN [ix |-> ix, count |-> count]
         ELSE IndexListingStop(r.ix, Tail(listing), oid + 1, count + 1)

RECURSIVE IndexListing(_, _, _, _)
\* the loop of index_directory over the files rglob yields, in that order:
\* listing is a sequence of <<path, text>>; count counts the successes
IndexListing(ix, listing, oid, count) ==
    IF listing = <<>> THEN [ix |-> ix, count |-> count]
    ELSE LET r == IndexFileOp(ix, Head(listing)[1], Head(listing)[2], oid) IN
         IF r.raised
         THEN IndexListing(ix, Tail(listing), oid, count)
         ELSE IndexListing(r.ix, Tail(listing), oid + 1, count + 1)

\* index_directory without the root.exists() test: rglob yields nothing
IndexDirectoryNoCheck(ix, root, oid) ==
    LET r == IndexListing(ix, root.listing, oid, 0) IN
    [ix |-> r.ix, raised |-> FALSE, count |-> r.count]

\* index_directory: root is [exists |-> BOOLEAN, listing |-> <<path, text>>*]
IndexDirectoryOp(ix, root, oid) ==
    IF ~root.exists
    THEN [ix |-> ix, raised |-> TRUE, count |-> 0]
    ELSE LET r == IndexListing(ix, root.listing, oid, 0) IN
         [ix |-> r.ix, raised |-> FALSE, count |-> r.count]

\* get_stats
GetStats(ix) ==
    [total_files |-> Len(ix.files),
     total_services |-> Len(ix.services),
     total_messages |-> Len(ix.messages),
     total_enums |-> Len(ix.enums),
     total_searchable_entries |-> Len(ix.search_entries)]

(***************************************************************************)
(* ProtoIndex: lookups and type resolution.                                *)
(***************************************************************************)
\* Python's None where a file path is expected
NoFile == "None"

\* the indices of the table entries get_service/get_message/get_enum accept
\* in their second pass: full_name.endswith(f".{name}") or entity.name == name
NameMatches(table, name) ==
    {i \in 1..Len(table) :
        EndsWith(table[i][1], DOT \o name) \/ table[i][2].name = name}

\* the lookup without its exact-match pass
LookupByNameLoose(table, name) ==
    IF NameMatches(table, name) # {}
    THEN table[CHOOSE i \in NameMatches(table, name) :
                  \A j \in NameMatches(table, name) : i <= j][2]
    ELSE None

\* the lookup that opens get_service, get_message and get_enum
LookupByName(table, name) ==
    IF DictGet(table, name) # None
    THEN DictGet(table, name)
    ELSE IF NameMatches(table, name) # {}
         THEN table[CHOOSE i \in NameMatches(table, name) :
                       \A j \in NameMatches(table, name) : i <= j][2]
         ELSE None

\* the entity list of a ProtoFile that def_type names
DefsOfKind(proto_file, def_type) ==
    CASE def_type = "service" -> proto_file.services
      [] def_type = "message" -> proto_file.messages
      [] def_type = "enum" -> proto_file.enums
      [] OTHER -> <<>>

\* _find_file_for_definition: the first file, in files order, that declares
\* an entity of that kind with that full_name
FindFileForDefinition(ix, full_name, def_type) ==
    LET hits == {i \in 1..Len(ix.files) :
                    \E k \in 1..Len(DefsOfKind(ix.files[i][2], def_type)) :
                        DefsOfKind(ix.files[i][2], def_type)[k].full_name = full_name}
    IN IF hits = {} THEN NoFile
       ELSE ix.files[CHOOSE i \in hits : \A j \in hits : i <= j][1]

\* a type lookup that goes straight to the scan by simple name
FindByTypeScanOnly(table, type_name, context_package) ==
    LET simple == {i \in 1..Len(table) :
                      table[i][2].name = type_name
                      \/ EndsWith(table[i][1], DOT \o type_name)}
    IN IF simple # {}
       THEN table[CHOOSE i \in simple : \A j \in simple : i <= j][2]
       ELSE None

\* _find_message_by_type / _find_enum_by_type on the table of that kind
FindByType(table, type_name, context_package) ==
    LET package_prefix == PackagePrefix(context_package)
        qualified_name == package_prefix \o DOT \o type_name
        simple == {i \in 1..Len(table) :
                      table[i][2].name = type_name
                      \/ EndsWith(table[i][1], DOT \o type_name)}
    IN IF DictHas(table, type_name) THEN DictGet(table, type_name)
       ELSE IF package_prefix # <<>> /\ DictHas(table, qualified_name)
            THEN DictGet(table, qualified_name)
            ELSE IF simple # {}
                 THEN table[CHOOSE i \in simple : \A j \in simple : i <= j][2]
                 ELSE None

FindMessageByType(ix, type_name, context_package) ==
    FindByType(ix.messages, type_name, context_package)

FindEnumByType(ix, type_name, context_package) ==
    FindByType(ix.enums, type_name, context_package)

\* the definition emitted into resolved_types for a message
MessageDef(ix, msg) ==
    [kind |-> "message", name |-> msg.name, full_name |-> msg.full_name,
     comment |-> msg.comment, fields |-> msg.fields,
     file |-> FindFileForDefinition(ix, msg.full_name, "message")]

\* an enum definition that loses the enum's first value
EnumDefTail(ix, enum) ==
    [kind |-> "enum", name |-> enum.name, full_name |-> enum.full_name,
     comment |-> enum.comment, values |-> Tail(enum.values),
     file |-> FindFileForDefinition(ix, enum.full_name, "enum")]

\* the definition emitted into resolved_types for an enum
EnumDef(ix, enum) ==
    [kind |-> "enum", name |-> enum.name, full_name |-> enum.full_name,
     comment |-> enum.comment, values |-> enum.values,
     file |-> FindFileForDefinition(ix, enum.full_name, "enum")]

RECURSIVE DictUpdate(_, _)
\* d.update(e)
DictUpdate(d, e) ==
    IF e = <<>> THEN d
    ELSE DictUpdate(DictSet(d, Head(e)[1], Head(e)[2]), Tail(e))

RECURSIVE ResolveMessageTypes(_, _, _, _, _)
RECURSIVE ResolveFields(_, _, _, _, _)
\* the loop of _resolve_message_types from field i on; acc carries the
\* resolved dict of this frame, the shared visited set, and the count of
\* _find_*_by_type calls made so far
ResolveFields(ix, message, i, max_depth, acc) ==
    IF i > Len(message.fields) THEN acc
    ELSE LET field_type == message.fields[i].type IN
         IF field_type \in Primitives \/ field_type \in acc.visited
         THEN ResolveFields(ix, message, i + 1, max_depth, acc)
         ELSE LET seen == acc.visited \cup {field_type}
                  msg == FindMessageByType(ix, field_type, message.full_name)
                  enum == FindEnumByType(ix, field_type, message.full_name)
              IN IF msg # None
                 THEN LET nested == ResolveMessageTypes(ix, msg, max_depth - 1,
                                                        seen, acc.lookups + 1)
                      IN ResolveFields(ix, message, i + 1, max_depth,
                            [resolved |-> DictUpdate(
                                 DictSet(acc.resolved, field_type, MessageDef(ix, msg)),
                                 nested.resolved),
                             visited |-> nested.visited,
                             lookups |-> nested.lookups])
                 ELSE ResolveFields(ix, message, i + 1, max_depth,
                            [resolved |-> IF enum # None
                                          THEN DictSet(acc.resolved, field_type,
                                                       EnumDef(ix, enum))
                                          ELSE acc.resolved,
                             visited |-> seen,
                             lookups |-> acc.lookups + 2])

\* _resolve_message_types(message, max_depth, visited)
ResolveMessageTypes(ix, message, max_depth, visited_in, lookups_in) ==
    IF max_depth <= 0
    THEN [resolved |-> <<>>, visited |-> visited_in, lookups |-> lookups_in]
    ELSE ResolveFields(ix, message, 1, max_depth,
            [resolved |-> <<>>, visited |-> visited_in, lookups |-> lookups_in])

\* get_service's test with the visited set left out
UnvisitedAlways(type_name, seen) == TRUE

\* rpc.request_type not in visited / rpc.response_type not in visited
Unvisited(type_name, seen) == type_name \notin seen

\* the request or the response half of one RPC in get_service
ResolveRpcType(ix, service, type_name, max_depth, acc) ==
    LET msg == FindMessageByType(ix, type_name, service.full_name) IN
    IF msg # None /\ Unvisited(type_name, acc.visited)
    THEN LET nested == ResolveMessageTypes(ix, msg, max_depth - 1,
                                           acc.visited \cup {type_name},
                                           acc.lookups + 1)
         IN [resolved |-> DictUpdate(
                 DictSet(acc.resolved, type_name, MessageDef(ix, msg)),
                 nested.resolved),
             visited |-> nested.visited,
             lookups |-> nested.lookups]
    ELSE [acc EXCEPT !.lookups = @ + 1]

RECURSIVE ResolveRpcs(_, _, _, _, _)
\* the loop over service.rpcs in get_service
ResolveRpcs(ix, service, i, max_depth, acc) ==
    IF i > Len(service.rpcs) THEN acc
    ELSE ResolveRpcs(ix, service, i + 1, max_depth,
            ResolveRpcType(ix, service, service.rpcs[i].response_type, max_depth,
                ResolveRpcType(ix, service, service.rpcs[i].request_type,
                               max_depth, acc)))

NoResolution == [resolved |-> <<>>, visited |-> {}, lookups |-> 0]

\* result['resolved_types'] = resolved_types, only if resolved_types is non-empty
WithResolved(result, r) ==
    IF r.resolved # <<>>
    THEN result @@ [resolved_types |-> r.resolved]
    ELSE result

\* if resolve_types: (the max_depth test forgotten)
ShouldResolveAnyDepth(resolve_types, max_depth) == resolve_types

\* if resolve_types and max_depth > 0
ShouldResolve(resolve_types, max_depth) == resolve_types /\ max_depth > 0

\* the result dict of get_service before resolution
ServiceView(ix, service) ==
    [name |-> service.name, full_name |-> service.full_name,
     comment |-> service.comment, rpcs |-> service.rpcs,
     file |-> FindFileForDefinition(ix, service.full_name, "service")]

\* the result dict of get_message before resolution
MessageView(ix, message) ==
    [name |-> message.name, full_name |-> message.full_name,
     comment |-> message.comment, fields |-> message.fields,
     file |-> FindFileForDefinition(ix, message.full_name, "message")]

\* the result dict of get_enum
EnumView(ix, proto_enum) ==
    [name |-> proto_enum.name, full_name |-> proto_enum.full_name,
     comment |-> proto_enum.comment, values |-> proto_enum.values,
     file |-> FindFileForDefinition(ix, proto_enum.full_name, "enum")]

\* get_service: None, or the result dict with the number of _find_*_by_type
\* calls made for it
GetService(ix, name, resolve_types, max_depth) ==
    LET service == LookupByName(ix.services, name) IN
    IF service = None THEN None
    ELSE LET r == IF ShouldResolve(resolve_types, max_depth)
                  THEN ResolveRpcs(ix, service, 1, max_depth, NoResolution)
                  ELSE NoResolution
         IN [lookups |-> r.lookups,
             result |-> WithResolved(ServiceView(ix, service), r)]

\* get_message
GetMessage(ix, name, resolve_types, max_depth) ==
    LET message == LookupByName(ix.messages, name) IN
    IF message = None THEN None
    ELSE LET r == IF ShouldResolve(resolve_types, max_depth)
                  THEN ResolveMessageTypes(ix, message, max_depth, {}, 0)
                  ELSE NoResolution
         IN [lookups |-> r.lookups,
             result |-> WithResolved(MessageView(ix, message), r)]

\* get_enum
GetEnum(ix, name) ==
    LET proto_enum == LookupByName(ix.enums, name) IN
    IF proto_enum = None THEN None
    ELSE [lookups |-> 0, result |-> EnumView(ix, proto_enum)]

(***************************************************************************)
(* Fuzzy search.  The scorers follow rapidfuzz on strings without          *)
(* whitespace (one token), with scores rounded down to whole percents.     *)
(***************************************************************************)
UpperToLower ==
    "A" :> "a" @@ "B" :> "b" @@ "C" :> "c" @@ "D" :> "d" @@ "E" :> "e" @@
    "F" :> "f" @@ "G" :> "g" @@ "H" :> "h" @@ "I" :> "i" @@ "J" :> "j" @@
    "K" :> "k" @@ "L" :> "l" @@ "M" :> "m" @@ "N" :> "n" @@ "O" :> "o" @@
    "P" :> "p" @@ "Q" :> "q" @@ "R" :> "r" @@ "S" :> "s" @@ "T" :> "t" @@
    "U" :> "u" @@ "V" :> "v" @@ "W" :> "w" @@ "X" :> "x" @@ "Y" :> "y" @@
    "Z" :> "z"

\* str.lower()
Lower(str) ==
    [i \in 1..Len(str) |->
        IF str[i] \in DOMAIN UpperToLower THEN UpperToLower[str[i]] ELSE str[i]]

Max(a, b) == IF a >= b THEN a ELSE b

RECURSIVE LCS(_, _)
\* length of the longest common subsequence
LCS(a, b) ==
    IF a = <<>> \/ b = <<>> THEN 0
    ELSE IF Head(a) = Head(b) THEN 1 + LCS(Tail(a), Tail(b))
         ELSE Max(LCS(Tail(a), b), LCS(a, Tail(b)))

\* fuzz.ratio: the normalized indel similarity
Ratio(a, b) ==
    IF Len(a) + Len(b) = 0 THEN 100
    ELSE (200 * LCS(a, b)) \div (Len(a) + Len(b))

\* fuzz.partial_ratio: the best ratio of the shorter string against a window
\* of the longer one
PartialRatio(a, b) ==
    LET short == IF Len(a) <= Len(b) THEN a ELSE b
        long == IF Len(a) <= Len(b) THEN b ELSE a
        scores == {Ratio(short, SubSeq(long, k, k + Len(short) - 1)) :
                      k \in 1..(Len(long) - Len(short) + 1)}
    IN IF Len(short) = 0 THEN (IF Len(long) = 0 THEN 100 ELSE 0)
       ELSE CHOOSE m \in scores : \A x \in scores : x <= m

\* fuzz.WRatio for one-token strings
WRatio(a, b) ==
    LET short == IF Len(a) <= Len(b) THEN Len(a) ELSE Len(b)
        long == IF Len(a) <= Len(b) THEN Len(b) ELSE Len(a)
    IN IF short = 0 THEN 0
       ELSE IF 2 * long < 3 * short THEN Ratio(a, b)
       ELSE IF long <= 8 * short
            THEN Max(Ratio(a, b), (PartialRatio(a, b) * 90) \div 100)
            ELSE Max(Ratio(a, b), (PartialRatio(a, b) * 60) \div 100)

RECURSIVE InsertByScoreBefore(_, _)
\* insert r into a list sorted by descending score, before its equals
InsertByScoreBefore(sorted, r) ==
    IF sorted = <<>> THEN <<r>>
    ELSE IF Head(sorted).score > r.score
         THEN <<Head(sorted)>> \o InsertByScoreBefore(Tail(sorted), r)
         ELSE <<r>> \o sorted

RECURSIVE InsertByScore(_, _)
\* insert r into a list sorted by descending score, after its equals
InsertByScore(sorted, r) ==
    IF sorted = <<>> THEN <<r>>
    ELSE IF Head(sorted).score >= r.score
         THEN <<Head(sorted)>> \o InsertByScore(Tail(sorted), r)
         ELSE <<r>> \o sorted

RECURSIVE SortByScore(_, _)
\* list.sort(key=score, reverse=True): stable, descending
SortByScore(sorted, rest) ==
    IF rest = <<>> THEN sorted
    ELSE SortByScore(InsertByScore(sorted, Head(rest)), Tail(rest))

Truncate(seq, n) == SubSeq(seq, 1, IF n < Len(seq) THEN n ELSE Len(seq))

\* the first n choices in list order instead of the n best
ExtractFirst(query, entries, n) ==
    Truncate([i \in 1..Len(entries) |->
                 [score |-> WRatio(query, entries[i][1]), idx |-> i]], n)

\* process.extract(query, names, scorer=fuzz.WRatio, limit=n): the n best
\* choices as (score, idx), best first, equal scores in list order
Extract(query, entries, n) ==
    Truncate(SortByScore(<<>>,
                [i \in 1..Len(entries) |->
                    [score |-> WRatio(query, entries[i][1]), idx |-> i]]), n)

\* the kind-specific metadata of a search result
ChildNames(entry_type, obj) ==
    CASE entry_type = "service" ->
            [rpcs |-> [i \in 1..Len(obj.rpcs) |-> obj.rpcs[i].name],
             rpc_count |-> Len(obj.rpcs)]
      [] entry_type = "message" ->
            [fields |-> [i \in 1..Len(obj.fields) |-> obj.fields[i].name],
             field_count |-> Len(obj.fields)]
      [] entry_type = "enum" ->
            [values |-> [i \in 1..Len(obj.values) |-> obj.values[i].name],
             value_count |-> Len(obj.values)]

RECURSIVE NamePhase(_, _, _, _)
\* the loop over name_matches; acc = [results, seen]
NamePhase(ix, name_matches, min_score, acc) ==
    IF name_matches = <<>> THEN acc
    ELSE LET m == Head(name_matches)
             entry == ix.search_entries[m.idx]
         IN IF m.score < min_score \/ entry[1] \in acc.seen
            THEN NamePhase(ix, Tail(name_matches), min_score, acc)
            ELSE NamePhase(ix, Tail(name_matches), min_score,
                    [seen |-> acc.seen \cup {entry[1]},
                     results |-> Append(acc.results,
                        [name |-> entry[1], type |-> entry[2], file |-> entry[4],
                         score |-> m.score, match_type |-> "name",
                         comment |-> entry[3].comment]
                        @@ ChildNames(entry[2], entry[3]))])

\* the first child (field or rpc) whose name scores at least min_score, or 0
FirstChildHit(query, children, min_score) ==
    LET hits == {k \in 1..Len(children) :
                    Ratio(Lower(query), Lower(children[k].name)) >= min_score}
    IN IF hits = {} THEN 0 ELSE CHOOSE k \in hits : \A j \in hits : k <= j

RECURSIVE ContentPhase(_, _, _, _, _)
\* the loop over _search_entries for comments, field names and rpc names
ContentPhase(ix, query, i, min_score, acc) ==
    IF i > Len(ix.search_entries) THEN acc
    ELSE LET entry == ix.search_entries[i]
             obj == entry[3]
             base == [name |-> entry[1], type |-> entry[2], file |-> entry[4]]
             children == IF entry[2] = "message" THEN obj.fields
                         ELSE IF entry[2] = "service" THEN obj.rpcs ELSE <<>>
             hit == FirstChildHit(query, children, min_score)
             emit(r) == ContentPhase(ix, query, i + 1, min_score,
                            [seen |-> acc.seen \cup {entry[1]},
                             results |-> Append(acc.results, r)])
         IN IF entry[1] \in acc.seen
            THEN ContentPhase(ix, query, i + 1, min_score, acc)
            ELSE IF obj.comment # NoComment
                    /\ PartialRatio(Lower(query), Lower(obj.comment)) >= min_score
            THEN emit(base @@ [score |-> PartialRatio(Lower(query), Lower(obj.comment)),
                               match_type |-> "comment", comment |-> obj.comment])
            ELSE IF entry[2] = "message" /\ hit # 0
            THEN emit(base @@ [score |-> Ratio(Lower(query), Lower(children[hit].name)),
                               match_type |-> "field",
                               matched_field |-> children[hit].name]
                           @@ ChildNames("message", obj))
            ELSE IF entry[2] = "service" /\ hit # 0
            THEN emit(base @@ [score |-> Ratio(Lower(query), Lower(children[hit].name)),
                               match_type |-> "rpc",
                               matched_rpc |-> children[hit].name]
                           @@ ChildNames("service", obj))
            ELSE ContentPhase(ix, query, i + 1, min_score, acc)

\* results before the final sort: the name matches, then the comment, field
\* and rpc matches
Merged(ix, query, limit, min_score) ==
    LET named == NamePhase(ix, Extract(query, ix.search_entries, limit * 2),
                           min_score, [results |-> <<>>, seen |-> {}])
    IN ContentPhase(ix, query, 1, min_score, named).results

\* search(query, limit, min_score)
Search(ix, query, limit, min_score) ==
    IF query = <<>> THEN <<>>
    ELSE Truncate(SortByScore(<<>>, Merged(ix, query, limit, min_score)), limit)

(***************************************************************************)
(* The index as a state machine: one action per public call.  log is the   *)
(* last call: the call, its outcome, and what the caller could observe of  *)
(* the index just before it.                                               *)
(***************************************************************************)
Ix ==
    [files |-> files, services |-> services, messages |-> messages,
     enums |-> enums, search_entries |-> search_entries]

SetIx(ix) ==
    /\ files' = ix.files
    /\ services' = ix.services
    /\ messages' = ix.messages
    /\ enums' = ix.enums
    /\ search_entries' = ix.search_entries

Idle == [op |-> "idle"]

NoCall == [op |-> "none"]

\* for remove_file(file_path): the call just before it, when that call was a
\* successful index_file of the same path
Undone(file_path) ==
    IF log.op = "index_file" /\ log.path = file_path /\ ~log.raised
    THEN [index_file |-> TRUE, stats |-> log.stats, known |-> log.known,
          clashes |-> log.clashes]
    ELSE [index_file |-> FALSE]

\* the full names a text declares that are already keys of their table
Clashes(ix, text) ==
    IF ~text.readable THEN {}
    ELSE {<<"service", FullName(text.package, text.services[i].name)>> :
             i \in {j \in 1..Len(text.services) :
                 DictHas(ix.services, FullName(text.package, text.services[j].name))}}
         \cup
         {<<"message", FullName(text.package, text.messages[i].name)>> :
             i \in {j \in 1..Len(text.messages) :
                 DictHas(ix.messages, FullName(text.package, text.messages[j].name))}}
         \cup
         {<<"enum", FullName(text.package, text.enums[i].name)>> :
             i \in {j \in 1..Len(text.enums) :
                 DictHas(ix.enums, FullName(text.package, text.enums[j].name))}}

\* what a directory can hold: files at distinct paths, in the order rglob
\* yields them
Listings ==
    {<<>>}
    \cup {<<e>> : e \in Paths \X Texts}
    \cup {<<e1, e2>> : e1 \in Paths \X DirTexts, e2 \in Paths \X DirTexts}

Roots ==
    {[exists |-> FALSE, listing |-> <<>>]}
    \cup {[exists |-> TRUE, listing |-> l] :
            l \in {m \in Listings : Len(m) = 2 => m[1][1] # m[2][1]}}

Readable(listing) == {i \in 1..Len(listing) : listing[i][2].readable}

\* no text is being parsed
NothingParsed ==
    /\ content = <<>>
    /\ line_no = 0
    /\ current_comment = <<>>
    /\ lines = <<>>
    /\ attached = None

Init ==
    /\ files = <<>>
    /\ services = <<>>
    /\ messages = <<>>
    /\ enums = <<>>
    /\ search_entries = <<>>
    /\ clock = 0
    /\ log = NoCall
    /\ call = Idle
    /\ stack = <<>>
    /\ visited = {}
    /\ lookups = 0
    /\ frames = 0
    /\ NothingParsed

IndexFile(file_path, text) ==
    /\ text.readable => clock < MaxIngests
    /\ LET r == IndexFileOp(Ix, file_path, text, clock + 1) IN
       /\ SetIx(r.ix)
       /\ clock' = IF r.raised THEN clock ELSE clock + 1
       /\ log' = ([op |-> "index_file", path |-> file_path,
                         raised |-> r.raised, stats |-> GetStats(Ix),
                         readable |-> text.readable,
                         known |-> DictHas(files, file_path),
                         clashes |-> Clashes(Ix, text)])
    /\ UNCHANGED <<resolver_vars, parser_vars>>

RemoveFile(file_path) ==
    /\ LET r == RemoveFileOp(Ix, file_path) IN
       /\ SetIx(r.ix)
       /\ log' = [op |-> "remove_file", path |-> file_path,
                   raised |-> r.raised, stats |-> GetStats(Ix),
                   known |-> DictHas(files, file_path),
                   undoes |-> Undone(file_path)]
    /\ UNCHANGED <<clock, parser_vars, resolver_vars>>

IndexDirectory(root) ==
    /\ clock + Cardinality(Readable(root.listing)) <= MaxIngests
    /\ LET r == IndexDirectoryOp(Ix, root, clock + 1) IN
       /\ SetIx(r.ix)
       /\ clock' = clock + r.count
       /\ log' = ([op |-> "index_directory", root |-> root,
                         raised |-> r.raised, ret |-> r.count,
                         stats |-> GetStats(Ix)])
    /\ UNCHANGED <<resolver_vars, parser_vars>>

Next ==
    \/ \E p \in Paths, t \in Texts : IndexFile(p, t)
    \/ \E p \in Paths : RemoveFile(p)
    \/ \E root \in Roots : IndexDirectory(root)

Spec == Init /\ [][Next]_vars

(***************************************************************************)
(* Properties of the mutating calls (specification Spec).                  *)
(***************************************************************************)
IxNext ==
    [files |-> files', services |-> services', messages |-> messages',
     enums |-> enums', search_entries |-> search_entries']

SearchQueries ==
    {<<"U">>, <<"a", ".", "U">>, <<"r", "e", "c">>, <<"s", "e", "l", "f">>, <<>>}

SearchLimits == {1, 2, 20}

\* min_score: minimum fuzzy match score (0-100)
SearchMinScores == {0, 60, 100}

\* no search returns a result whose 'file' is file_path
NoSearchResultFrom(ix, file_path) ==
    \A q \in SearchQueries, limit \in SearchLimits, min_score \in SearchMinScores :
        \A k \in 1..Len(Search(ix, q, limit, min_score)) :
            Search(ix, q, limit, min_score)[k].file # file_path

\* some search returns a result whose 'file' is file_path
SomeSearchResultFrom(ix, file_path) ==
    \E q \in SearchQueries, limit \in SearchLimits, min_score \in SearchMinScores :
        \E k \in 1..Len(Search(ix, q, limit, min_score)) :
            Search(ix, q, limit, min_score)[k].file = file_path

\* C1 as stated: whatever the index held, index_file(path) directly followed
\* by remove_file(path) restores the five get_stats counters and leaves no
\* search result whose 'file' is path.
C1_EvictionRestoresAlways ==
    (log.op = "remove_file" /\ log.undoes.index_file)
        => /\ GetStats(Ix) = log.undoes.stats
           /\ NoSearchResultFrom(Ix, log.path)

\* C1 amended: when path was not in the file table and no full name of the
\* document was already a key of its table, index_file(path) directly
\* followed by remove_file(path) restores the five get_stats counters, and
\* afterwards no search returns a result whose 'file' is path.
C1_EvictionRestoresFresh ==
    (/\ log.op = "remove_file"
     /\ log.undoes.index_file
     /\ ~log.undoes.known
     /\ log.undoes.clashes = {})
        => /\ GetStats(Ix) = log.undoes.stats
           /\ NoSearchResultFrom(Ix, log.path)

\* a fresh document that added entities was indexed into a non-empty index
\* and evicted again, and the counters are those from before
C1_Witness ==
    /\ log.op = "remove_file"
    /\ log.undoes.index_file
    /\ ~log.undoes.known
    /\ log.undoes.clashes = {}
    /\ log.undoes.stats.total_files >= 1
    /\ log.stats.total_searchable_entries > log.undoes.stats.total_searchable_entries
    /\ GetStats(Ix) = log.undoes.stats
    /\ \E p \in Paths : SomeSearchResultFrom(Ix, p)

\* the entities of the table of each kind
TableOf(ix, kind) ==
    CASE kind = "service" -> ix.services
      [] kind = "message" -> ix.messages
      [] kind = "enum" -> ix.enums

Kinds == {"service", "message", "enum"}

\* C2: remove_file(path) takes a full name out of a table only if the entry
\* is the evicted document's own entity: an entry that a later document
\* wrote over it stays in the table and resolvable by exact lookup.
C2_EvictOnlyOwnEntries ==
    [][(log'.op = "remove_file" /\ log'.known)
        => \A kind \in Kinds :
              \A i \in 1..Len(TableOf(Ix, kind)) :
                 TableOf(Ix, kind)[i][2].oid # DictGet(files, log'.path).oid
                    => DictGet(TableOf(IxNext, kind), TableOf(Ix, kind)[i][1])
                          = TableOf(Ix, kind)[i][2]]_vars

\* every key occurs once in the dict
UniqueKeys(d) ==
    \A i, j \in 1..Len(d) : d[i][1] = d[j][1] => i = j

\* C3: index_file of a document that declares a full name another document
\* already put in the table raises nothing; after a successful index_file
\* the exact lookup of each full name the document declares returns the
\* entity of the document just ingested; no table holds a full name twice.
C3_LastIngestedWins ==
    [][/\ (log'.op = "index_file" /\ log'.readable) => ~log'.raised
       /\ (log'.op = "index_file" /\ ~log'.raised /\ clock' = clock + 1)
            => \A kind \in Kinds :
                  \A i \in 1..Len(DefsOfKind(DictGet(files', log'.path), kind)) :
                     LET e == DefsOfKind(DictGet(files', log'.path), kind)[i] IN
                     /\ e.oid = clock'
                     /\ LookupByName(TableOf(IxNext, kind), e.full_name).oid = clock'
       /\ \A kind \in Kinds : UniqueKeys(TableOf(IxNext, kind))]_vars

\* a document at another path has just overwritten a full name, and the
\* exact lookup returns the newcomer
C3_Witness ==
    /\ log.op = "index_file"
    /\ ~log.raised
    /\ ~log.known
    /\ \E c \in log.clashes :
          /\ c[1] = "message"
          /\ LookupByName(messages, c[2]).oid = clock
          /\ \E i \in 1..Len(files) :
                /\ files[i][1] # log.path
                /\ \E k \in 1..Len(files[i][2].messages) :
                      files[i][2].messages[k].full_name = c[2]

\* C4: remove_file(path) for a path that is no key of the file table raises
\* nothing and leaves the file table, the three tables and the search
\* entries as they were.
C4_RemoveUnknownIsNoOp ==
    [][(log'.op = "remove_file" /\ ~log'.known)
        => /\ ~log'.raised
           /\ UNCHANGED index_vars]_vars

\* remove_file of an unknown path was called on a non-empty index
C4_Witness ==
    /\ log.op = "remove_file"
    /\ ~log.known
    /\ ~log.raised
    /\ files # <<>>
    /\ search_entries # <<>>

\* C5: index_file raises exactly when the file cannot be read or parsed, and
\* when it raises the index is as it was before the call.
C5_IndexFileStrict ==
    [][log'.op = "index_file"
        => /\ log'.raised <=> ~log'.readable
           /\ log'.raised => UNCHANGED index_vars]_vars

\* index_file has failed on a non-empty index
C5_Witness ==
    /\ log.op = "index_file"
    /\ log.raised
    /\ ~log.readable
    /\ files # <<>>
    /\ GetStats(Ix) = log.stats

\* the number of search entries whose source path is file_path
EntriesFrom(ix, file_path) ==
    Len(SelectSeq(ix.search_entries, LAMBDA entry : entry[4] = file_path))

C7_MissingRootFails ==
    [][(log'.op = "index_directory" /\ ~log'.root.exists)
        => /\ log'.raised
           /\ UNCHANGED index_vars]_vars

\* index_directory of a missing root has failed on a non-empty index
C7_Witness ==
    /\ log.op = "index_directory"
    /\ ~log.root.exists
    /\ log.raised
    /\ files # <<>>

(***************************************************************************)
(* The queries, on an index that some mutating calls have built.           *)
(* get_message and get_service run _resolve_message_types step by step:    *)
(* stack holds one frame per active invocation (get_service's loop at the  *)
(* bottom), visited is the set shared by them, lookups counts the calls of *)
(* _find_message_by_type / _find_enum_by_type and frames the invocations   *)
(* of _resolve_message_types.                                              *)
(***************************************************************************)
RECURSIVE SetupStates(_)
\* the indexes that at most n mutating calls build from the empty index
SetupStates(n) ==
    IF n = 0 THEN {[ix |-> EmptyIndex, clock |-> 0]}
    ELSE LET before == SetupStates(n - 1) IN
         before
         \cup {[ix |-> IndexFileOp(b.ix, p, t, b.clock + 1).ix, clock |-> b.clock + 1] :
                  b \in before, p \in Paths, t \in Texts \ {Unreadable}}
         \cup {[ix |-> RemoveFileOp(b.ix, p).ix, clock |-> b.clock] :
                  b \in before, p \in Paths}

QueryNames ==
    {<<"U">>, <<"a", ".", "U">>, <<"c", ".", "U">>, <<"A">>, <<"R">>, <<"S">>,
     <<"T">>, <<"Z">>, <<"P">>, <<>>}

QueryDepths == {-1, 0, 1, 2, 5}

\* (resolve_types, max_depth) as callers pass them; max_depth defaults to 10
QueryArgs == {<<TRUE, d>> : d \in QueryDepths} \cup {<<FALSE, 10>>}

InitQuery ==
    /\ \E s \in SetupStates(MaxSetup) :
          /\ files = s.ix.files
          /\ services = s.ix.services
          /\ messages = s.ix.messages
          /\ enums = s.ix.enums
          /\ search_entries = s.ix.search_entries
          /\ clock = s.clock
    /\ log = NoCall
    /\ call = Idle
    /\ stack = <<>>
    /\ visited = {}
    /\ lookups = 0
    /\ frames = 0
    /\ NothingParsed

\* the record log holds once a query has returned
Returned(c, ret) ==
    [op |-> c.op, name |-> c.name, resolve_types |-> c.resolve_types,
     max_depth |-> c.max_depth, raised |-> FALSE, ret |-> ret]

MessageFrame(message, max_depth) ==
    [kind |-> "message", entity |-> message, i |-> 1, half |-> "request",
     max_depth |-> max_depth, resolved |-> <<>>]

ServiceFrame(service, max_depth) ==
    [kind |-> "service", entity |-> service, i |-> 1, half |-> "request",
     max_depth |-> max_depth, resolved |-> <<>>]

\* get_message up to its call of _resolve_message_types
GetMessageCall(name, resolve_types, max_depth) ==
    LET c == [op |-> "get_message", name |-> name,
              resolve_types |-> resolve_types, max_depth |-> max_depth]
        message == LookupByName(messages, name)
    IN /\ call = Idle
       /\ log = NoCall
       /\ UNCHANGED <<index_vars, clock, parser_vars>>
       /\ visited' = {}
       /\ lookups' = 0
       /\ IF message = None
          THEN /\ log' = Returned(c, None)
               /\ frames' = 0
               /\ UNCHANGED <<call, stack>>
          ELSE IF ShouldResolve(resolve_types, max_depth)
          THEN /\ log' = NoCall
               /\ call' = c
               /\ frames' = 1
               /\ stack' = <<MessageFrame(message, max_depth)>>
          ELSE /\ log' = Returned(c, [lookups |-> 0, frames |-> 0,
                                      result |-> MessageView(Ix, message)])
               /\ frames' = 0
               /\ UNCHANGED <<call, stack>>

\* get_service up to its loop over the rpcs
GetServiceCall(name, resolve_types, max_depth) ==
    LET c == [op |-> "get_service", name |-> name,
              resolve_types |-> resolve_types, max_depth |-> max_depth]
        service == LookupByName(services, name)
    IN /\ call = Idle
       /\ log = NoCall
       /\ UNCHANGED <<index_vars, clock, parser_vars>>
       /\ visited' = {}
       /\ lookups' = 0
       /\ frames' = 0
       /\ IF service = None
          THEN /\ log' = Returned(c, None)
               /\ UNCHANGED <<call, stack>>
          ELSE IF ShouldResolve(resolve_types, max_depth)
          THEN /\ log' = NoCall
               /\ call' = c
               /\ stack' = <<ServiceFrame(service, max_depth)>>
          ELSE /\ log' = Returned(c, [lookups |-> 0, frames |-> 0,
                                      result |-> ServiceView(Ix, service)])
               /\ UNCHANGED <<call, stack>>

\* get_enum
GetEnumCall(name) ==
    LET c == [op |-> "get_enum", name |-> name,
              resolve_types |-> FALSE, max_depth |-> 0]
        proto_enum == LookupByName(enums, name)
    IN /\ call = Idle
       /\ log = NoCall
       /\ UNCHANGED <<index_vars, clock, parser_vars, resolver_vars>>
       /\ log' = Returned(c, IF proto_enum = None THEN None
                              ELSE [lookups |-> 0, frames |-> 0,
                                    result |-> EnumView(Ix, proto_enum)])

\* a search that drops the first search entry as it returns
SearchCallForgetful(query, limit, min_score) ==
    /\ call = Idle
    /\ log = NoCall
    /\ search_entries' = IF search_entries = <<>> THEN <<>> ELSE Tail(search_entries)
    /\ UNCHANGED <<files, services, messages, enums, clock, parser_vars, resolver_vars>>
    /\ log' = [op |-> "search", query |-> query, limit |-> limit,
               min_score |-> min_score, raised |-> FALSE,
               ret |-> Search(Ix, query, limit, min_score)]

\* the search tool: ProtoIndex.search
SearchCall(query, limit, min_score) ==
    /\ call = Idle
    /\ log = NoCall
    /\ UNCHANGED <<index_vars, clock, parser_vars, resolver_vars>>
    /\ log' = [op |-> "search", query |-> query, limit |-> limit,
               min_score |-> min_score, raised |-> FALSE,
               ret |-> Search(Ix, query, limit, min_score)]

\* get_stats
GetStatsCall ==
    /\ call = Idle
    /\ log = NoCall
    /\ UNCHANGED <<index_vars, clock, parser_vars, resolver_vars>>
    /\ log' = [op |-> "get_stats", raised |-> FALSE, ret |-> GetStats(Ix)]

Top == stack[Len(stack)]

\* the stack with its top frame replaced
WithTop(frame) == [stack EXCEPT ![Len(stack)] = frame]

\* the loop of _resolve_message_types without its visited test
SkippedPrimitivesOnly(field_type, seen) == field_type \in Primitives

\* whether the loop of _resolve_message_types skips this field type
Skipped(field_type, seen) == field_type \in Primitives \/ field_type \in seen

\* the max_depth handed to the nested call, not decremented
NestedDepthSame(max_depth) == max_depth

\* the max_depth handed to the nested _resolve_message_types
NestedDepth(max_depth) == max_depth - 1

\* one iteration of the loop of _resolve_message_types in the top frame
ResolveField ==
    /\ call # Idle
    /\ Top.kind = "message"
    /\ Top.max_depth > 0
    /\ Top.i <= Len(Top.entity.fields)
    /\ UNCHANGED <<index_vars, clock, parser_vars, log, call>>
    /\ LET field_type == Top.entity.fields[Top.i].type
           msg == FindMessageByType(Ix, field_type, Top.entity.full_name)
           enum == FindEnumByType(Ix, field_type, Top.entity.full_name)
       IN IF Skipped(field_type, visited)
          THEN /\ stack' = WithTop([Top EXCEPT !.i = @ + 1])
               /\ UNCHANGED <<visited, lookups, frames>>
          ELSE /\ visited' = visited \cup {field_type}
               /\ IF msg # None
                  THEN /\ Len(stack) < MaxStack
                       /\ lookups' = lookups + 1
                       /\ frames' = frames + 1
                       /\ stack' = Append(
                             WithTop([Top EXCEPT !.resolved =
                                 DictSet(@, field_type, MessageDef(Ix, msg))]),
                             MessageFrame(msg, NestedDepth(Top.max_depth)))
                  ELSE /\ lookups' = lookups + 2
                       /\ frames' = frames
                       /\ stack' = WithTop(
                             [Top EXCEPT !.i = @ + 1,
                                         !.resolved =
                                            IF enum # None
                                            THEN DictSet(@, field_type, EnumDef(Ix, enum))
                                            ELSE @])

\* the request or the response half of one rpc in the loop of get_service
ResolveRpc ==
    /\ call # Idle
    /\ Top.kind = "service"
    /\ Top.i <= Len(Top.entity.rpcs)
    /\ UNCHANGED <<index_vars, clock, parser_vars, log, call>>
    /\ LET rpc == Top.entity.rpcs[Top.i]
           type_name == IF Top.half = "request" THEN rpc.request_type
                        ELSE rpc.response_type
           msg == FindMessageByType(Ix, type_name, Top.entity.full_name)
           advanced == IF Top.half = "request"
                       THEN [Top EXCEPT !.half = "response"]
                       ELSE [Top EXCEPT !.half = "request", !.i = @ + 1]
       IN /\ lookups' = lookups + 1
          /\ IF msg # None /\ Unvisited(type_name, visited)
             THEN /\ Len(stack) < MaxStack
                  /\ visited' = visited \cup {type_name}
                  /\ frames' = frames + 1
                  /\ stack' = Append(
                        WithTop([Top EXCEPT !.resolved =
                            DictSet(@, type_name, MessageDef(Ix, msg))]),
                        MessageFrame(msg, NestedDepth(Top.max_depth)))
             ELSE /\ stack' = WithTop(advanced)
                  /\ UNCHANGED <<visited, frames>>

\* whether the top frame has run to its return statement
Finished(frame) ==
    IF frame.kind = "message"
    THEN frame.max_depth <= 0 \/ frame.i > Len(frame.entity.fields)
    ELSE frame.i > Len(frame.entity.rpcs)

\* the frame of the caller once the nested call returned nested: it merges
\* the nested dict and goes on with its next field or rpc half
Resumed(frame, nested) ==
    LET merged == [frame EXCEPT !.resolved = DictUpdate(@, nested)] IN
    IF frame.kind = "message" THEN [merged EXCEPT !.i = @ + 1]
    ELSE IF frame.half = "request" THEN [merged EXCEPT !.half = "response"]
    ELSE [merged EXCEPT !.half = "request", !.i = @ + 1]

\* the return of the top frame: into its caller, or out of the query
ResolveReturn ==
    /\ call # Idle
    /\ Finished(Top)
    /\ UNCHANGED <<index_vars, clock, parser_vars, visited, lookups, frames>>
    /\ LET returned == IF Top.kind = "message" /\ Top.max_depth <= 0
                       THEN <<>> ELSE Top.resolved
       IN IF Len(stack) > 1
          THEN /\ stack' = Append(SubSeq(stack, 1, Len(stack) - 2),
                                  Resumed(stack[Len(stack) - 1], returned))
               /\ UNCHANGED <<log, call>>
          ELSE /\ stack' = <<>>
               /\ call' = Idle
               /\ log' = Returned(call,
                     [lookups |-> lookups, frames |-> frames,
                      result |-> WithResolved(
                          IF Top.kind = "message" THEN MessageView(Ix, Top.entity)
                          ELSE ServiceView(Ix, Top.entity),
                          [resolved |-> returned])])

\* the tool handler hands the result of the query to the client and the
\* locals of the call are gone; the next request is handled after that
Respond ==
    /\ call = Idle
    /\ log # NoCall
    /\ log' = NoCall
    /\ visited' = {}
    /\ lookups' = 0
    /\ frames' = 0
    /\ UNCHANGED <<index_vars, clock, parser_vars, call, stack>>

ResolveStep == ResolveField \/ ResolveRpc \/ ResolveReturn

NextQuery ==
    \/ \E name \in QueryNames, a \in QueryArgs : GetMessageCall(name, a[1], a[2])
    \/ \E name \in QueryNames, a \in QueryArgs : GetServiceCall(name, a[1], a[2])
    \/ \E name \in QueryNames : GetEnumCall(name)
    \/ \E query \in SearchQueries, limit \in SearchLimits,
          min_score \in SearchMinScores : SearchCall(query, limit, min_score)
    \/ GetStatsCall
    \/ ResolveField
    \/ ResolveRpc
    \/ ResolveReturn
    \/ Respond

SpecQuery == InitQuery /\ [][NextQuery]_vars

\* a call that has started runs on until it returns
FairQuery == SpecQuery /\ WF_vars(ResolveStep)

(***************************************************************************)
(* Properties of the queries (specifications SpecQuery and FairQuery).     *)
(***************************************************************************)
\* the table a query reads
TableOfOp(op) ==
    CASE op = "get_service" -> services
      [] op = "get_message" -> messages
      [] op = "get_enum" -> enums

\* the children of an entity or of a result dict: rpcs, fields or values
Children(op, r) ==
    CASE op = "get_service" -> r.rpcs
      [] op = "get_message" -> r.fields
      [] op = "get_enum" -> r.values

\* the result dict shows this entity
Shows(op, result, entity) ==
    /\ result.name = entity.name
    /\ result.full_name = entity.full_name
    /\ result.comment = entity.comment
    /\ Children(op, result) = Children(op, entity)

LookupOps == {"get_service", "get_message", "get_enum"}

\* the step-by-step resolution returns what ResolveMessageTypes and
\* ResolveRpcs compute, with the same number of lookups
QueryMatchesOperators ==
    (log.op \in LookupOps /\ log.ret # None)
        => LET r == CASE log.op = "get_service" ->
                            GetService(Ix, log.name, log.resolve_types, log.max_depth)
                      [] log.op = "get_message" ->
                            GetMessage(Ix, log.name, log.resolve_types, log.max_depth)
                      [] log.op = "get_enum" -> GetEnum(Ix, log.name)
           IN /\ r # None
              /\ r.result = log.ret.result
              /\ r.lookups = log.ret.lookups

\* C8: get_service, get_message and get_enum raise nothing; a name that is
\* the full name of a table entry returns that entry, whatever else matches;
\* otherwise an entry whose full name ends with "." + name or whose simple
\* name is name is returned if there is one; otherwise the result is None.
C8_NameLookup ==
    log.op \in LookupOps
        => LET table == TableOfOp(log.op)
               exact == {i \in 1..Len(table) : table[i][1] = log.name}
               loose == {i \in 1..Len(table) :
                            \/ EndsWith(table[i][1], <<".">> \o log.name)
                            \/ table[i][2].name = log.name}
           IN /\ ~log.raised
              /\ IF exact # {}
                 THEN /\ log.ret # None
                      /\ \E i \in exact : Shows(log.op, log.ret.result, table[i][2])
                 ELSE IF loose # {}
                 THEN /\ log.ret # None
                      /\ \E i \in loose : Shows(log.op, log.ret.result, table[i][2])
                 ELSE log.ret = None

\* get_message("U") returned the entry whose full name is U although an
\* entry inserted before it matches U by suffix
C8_Witness ==
    /\ log.op = "get_message"
    /\ log.name = <<"U">>
    /\ log.ret # None
    /\ log.ret.result.full_name = <<"U">>
    /\ Len(messages) >= 2
    /\ messages[1][1] = <<"a", ".", "U">>

\* the number of entries of dict d under key k
CountKey(d, k) == Cardinality({i \in 1..Len(d) : d[i][1] = k})

\* get_message with max_depth = 5 on a message with a field of its own type
\* returns that type exactly once in resolved_types
SelfReferenceOnce ==
    (/\ log.op = "get_message"
     /\ log.resolve_types
     /\ log.max_depth = 5
     /\ log.ret # None)
        => \A k \in 1..Len(log.ret.result.fields) :
              LET t == log.ret.result.fields[k].type
                  target == DictGet(messages, t)
              IN (target # None /\ target.full_name = log.ret.result.full_name)
                    => /\ "resolved_types" \in DOMAIN log.ret.result
                       /\ CountKey(log.ret.result.resolved_types, t) = 1

\* C9: every get_message / get_service that resolves types returns, for
\* every indexed type graph (self-references and longer cycles included)
\* and every max_depth; the invocations of _resolve_message_types never nest
\* deeper than one more than the number of type tokens visited; a message
\* with a field of its own type, resolved with max_depth = 5, has that type
\* exactly once in resolved_types.
C9_CycleSafety ==
    /\ [](Len(stack) <= Cardinality(visited) + 1)
    /\ []SelfReferenceOnce
    /\ ((call # Idle) ~> (call = Idle))

\* get_message("U", max_depth=5) on message U { U self = 1; } has returned:
\* U is in resolved_types once, and _resolve_message_types ran twice
C9_Witness ==
    /\ log.op = "get_message"
    /\ log.max_depth = 5
    /\ log.resolve_types
    /\ log.ret # None
    /\ log.ret.result.full_name = <<"U">>
    /\ log.ret.result.fields[1].type = <<"U">>
    /\ "resolved_types" \in DOMAIN log.ret.result
    /\ CountKey(log.ret.result.resolved_types, <<"U">>) = 1
    /\ log.ret.frames = 2

\* C10: get_message and get_service called with max_depth = 0, or with
\* resolve_types = false, look no type up, never enter
\* _resolve_message_types, and return a result without a resolved_types
\* key that still holds the entity's own fields / rpcs.
C10_DepthZeroOptOut ==
    (/\ log.op \in {"get_message", "get_service"}
     /\ (log.max_depth = 0 \/ ~log.resolve_types)
     /\ log.ret # None)
        => /\ "resolved_types" \notin DOMAIN log.ret.result
           /\ log.ret.lookups = 0
           /\ log.ret.frames = 0
           /\ \E i \in 1..Len(TableOfOp(log.op)) :
                 Shows(log.op, log.ret.result, TableOfOp(log.op)[i][2])

\* get_message with max_depth = 0 returned a message whose resolution with
\* max_depth = 1 is not empty
C10_Witness ==
    /\ log.op = "get_message"
    /\ log.resolve_types
    /\ log.max_depth = 0
    /\ log.ret # None
    /\ Len(log.ret.result.fields) >= 1
    /\ "resolved_types" \notin DOMAIN log.ret.result
    /\ "resolved_types" \in DOMAIN GetMessage(Ix, log.name, TRUE, 1).result

\* some indexed message or enum answers to this type token
Resolvable(ix, type_name, context_package) ==
    \/ FindMessageByType(ix, type_name, context_package) # None
    \/ FindEnumByType(ix, type_name, context_package) # None

\* the type tokens an entity refers to: the types of its fields, or the
\* request and response types of its rpcs
RefTokens(entity) ==
    IF "fields" \in DOMAIN entity
    THEN {entity.fields[i].type : i \in 1..Len(entity.fields)}
    ELSE {entity.rpcs[i].request_type : i \in 1..Len(entity.rpcs)}
         \cup {entity.rpcs[i].response_type : i \in 1..Len(entity.rpcs)}

RECURSIVE DefsAt(_, _, _)
\* the messages a chain of exactly n type references leads to from root,
\* each reference looked up from the entity that makes it
DefsAt(ix, root, n) ==
    IF n = 0 THEN {root}
    ELSE UNION {{FindMessageByType(ix, tok, D.full_name) : tok \in RefTokens(D)} :
                   D \in DefsAt(ix, root, n - 1)}
         \ {None}

\* the type tokens that chains of at most d type references from root end in
TokensWithin(ix, root, d) ==
    UNION {RefTokens(D) : D \in UNION {DefsAt(ix, root, k) : k \in 0..(d - 1)}}

\* the entity a completed get_message / get_service call returned
RootOf(record) == DictGet(TableOfOp(record.op), record.ret.result.full_name)

\* the keys of resolved_types in a result, none when the key is absent
ResolvedKeys(result) ==
    IF "resolved_types" \in DOMAIN result
    THEN DictKeys(result.resolved_types)
    ELSE {}

\* the reference of the frame below the top one is recorded in that frame
RecordedBelow(j) ==
    LET below == stack[j - 1]
        token == IF below.kind = "message" THEN below.entity.fields[below.i].type
                 ELSE IF below.half = "request"
                      THEN below.entity.rpcs[below.i].request_type
                      ELSE below.entity.rpcs[below.i].response_type
    IN /\ DictHas(below.resolved, token)
       /\ DictGet(below.resolved, token).full_name = stack[j].entity.full_name

\* C11: for max_depth = d >= 1 every key of resolved_types is a type token
\* that a chain of at most d type references from the root entity ends in;
\* a definition found when the remaining depth reaches 0 is recorded in the
\* frame that found it, and the invocation entered for it with max_depth 0
\* looks at none of its fields; with d = 1 the keys are exactly the root's
\* own references that resolve.
C11_DepthBound ==
    /\ (/\ log.op \in {"get_message", "get_service"}
        /\ log.resolve_types
        /\ log.max_depth >= 1
        /\ log.ret # None)
           => /\ ResolvedKeys(log.ret.result)
                    \subseteq TokensWithin(Ix, RootOf(log), log.max_depth)
              /\ log.max_depth = 1
                    => ResolvedKeys(log.ret.result) =
                          {t \in RefTokens(RootOf(log)) :
                              IF log.op = "get_message"
                              THEN /\ t \notin Primitives
                                   /\ Resolvable(Ix, t, RootOf(log).full_name)
                              ELSE FindMessageByType(Ix, t, RootOf(log).full_name) # None}
    /\ \A j \in 2..Len(stack) :
          /\ RecordedBelow(j)
          /\ stack[j].max_depth <= 0
                => stack[j].i = 1 /\ stack[j].resolved = <<>>

\* get_message("c.U", max_depth=1) returned A alone in resolved_types: A
\* refers to U, which max_depth=2 resolves
C11_Witness ==
    /\ log.op = "get_message"
    /\ log.resolve_types
    /\ log.max_depth = 1
    /\ log.ret # None
    /\ log.ret.result.full_name = <<"b", ".", "c", ".", "U">>
    /\ ResolvedKeys(log.ret.result) = {<<"A">>}
    /\ <<"U">> \in ResolvedKeys(GetMessage(Ix, log.name, TRUE, 2).result)

\* the type token the loop of a frame is at
CurrentToken(frame) ==
    IF frame.kind = "message" THEN frame.entity.fields[frame.i].type
    ELSE IF frame.half = "request"
         THEN frame.entity.rpcs[frame.i].request_type
         ELSE frame.entity.rpcs[frame.i].response_type

\* one step of a resolution loop: a definition is emitted or a nested
\* invocation entered only for a token that was not visited and now is; a
\* token already visited is passed over
VisitedStep ==
    (call # Idle /\ ~Finished(Top)) =>
        LET t == CurrentToken(Top)
            emitted == stack'[Len(stack)].resolved # Top.resolved
            entered == Len(stack') > Len(stack)
        IN /\ (emitted \/ entered) => (t \notin visited /\ t \in visited')
           /\ t \in visited =>
                 /\ ~emitted
                 /\ ~entered
                 /\ frames' = frames
                 /\ visited' = visited

\* C12: one visited set serves the whole call tree of a get_message or
\* get_service call, the rpcs of a service included: it is empty when the
\* call starts and only grows during it; a token is added to it in the step
\* that emits its definition or enters the invocation for it, and a token
\* already in it is neither emitted nor entered again; so there are never
\* more invocations than visited tokens plus the root's.
C12_SharedVisited ==
    /\ [](frames <= Cardinality(visited) + 1)
    /\ [][/\ (call = Idle /\ call' # Idle) => visited' = {}
          /\ (call # Idle) => visited \subseteq visited'
          /\ VisitedStep]_vars

\* get_service("S") returned: rpc G has U as request and as response type,
\* and _resolve_message_types ran once, for the request
C12_Witness ==
    /\ log.op = "get_service"
    /\ log.resolve_types
    /\ log.max_depth = 5
    /\ log.ret # None
    /\ log.ret.result.rpcs[1].request_type = <<"U">>
    /\ log.ret.result.rpcs[1].response_type = <<"U">>
    /\ <<"U">> \in ResolvedKeys(log.ret.result)
    /\ log.ret.frames = 1

\* C13: a get_message or get_service call that resolves types raises
\* nothing, has no primitive type token among the keys of resolved_types,
\* leaves out every token that answers to no indexed message and no indexed
\* enum, and still resolves the references that come after such a token:
\* every reference of the root that resolves to a message (for a message
\* root: or to an enum) is a key.
C13_PrimitivesSkippedUnknownsDropped ==
    (/\ log.op \in {"get_message", "get_service"}
     /\ log.resolve_types
     /\ log.max_depth >= 1
     /\ log.ret # None)
        => LET root == RootOf(log)
               keys == ResolvedKeys(log.ret.result)
           IN /\ ~log.raised
              /\ keys \cap Primitives = {}
              /\ \A t \in keys : Resolvable(Ix, t, root.full_name)
              /\ \A t \in RefTokens(root) \ Primitives :
                    (\/ FindMessageByType(Ix, t, root.full_name) # None
                     \/ /\ log.op = "get_message"
                        /\ FindEnumByType(Ix, t, root.full_name) # None)
                        => t \in keys

(***************************************************************************)
(* Properties of a query made right after a mutating call (specification   *)
(* Spec): the query is GetMessage / Search on the index the call left.     *)
(***************************************************************************)
\* result.get('resolved_types', {})
ResolvedOf(result) ==
    IF "resolved_types" \in DOMAIN result THEN result.resolved_types ELSE <<>>

\* get_message(M.name) on the index as it is returns message M of doc under
\* its full name with its fields in declaration order, and every field of M
\* of type E.name has E in resolved_types as an enum with E's values in
\* declaration order
RoundTrip(doc, M, E) ==
    LET r == GetMessage(Ix, M.name, TRUE, 10) IN
    /\ r # None
    /\ r.result.full_name = doc.package \o DOT \o M.name
    /\ r.result.fields = M.fields
    /\ \A k \in 1..Len(M.fields) :
          M.fields[k].type = E.name
             => /\ DictHas(ResolvedOf(r.result), E.name)
                /\ DictGet(ResolvedOf(r.result), E.name).kind = "enum"
                /\ DictGet(ResolvedOf(r.result), E.name).values = E.values

\* no other table entry answers to the simple names of M and E
Unshadowed(doc, M, E) ==
    /\ \A i \in 1..Len(messages) :
          /\ messages[i][2].name = M.name
                => messages[i][1] = doc.package \o DOT \o M.name
          /\ messages[i][2].name # E.name
    /\ \A i \in 1..Len(enums) :
          enums[i][2].name = E.name => enums[i][1] = doc.package \o DOT \o E.name

\* the messages and enums of the document a successful index_file wrote
JustIngested ==
    IF log.op = "index_file" /\ ~log.raised /\ DictGet(files, log.path).package # <<>>
    THEN LET doc == DictGet(files, log.path) IN
         {<<doc, doc.messages[i], doc.enums[j]>> :
             i \in 1..Len(doc.messages), j \in 1..Len(doc.enums)}
    ELSE {}

\* C14 as stated: right after index_file of a document in package P that
\* declares message M and enum E, get_message by M's simple name returns
\* P.M with M's fields in declaration order and resolved_types[E] is the
\* enum with all its values in declaration order, whatever else is indexed.
C14_RoundTripAlways ==
    \A t \in JustIngested : RoundTrip(t[1], t[2], t[3])

\* C14, amended: the same, when no other message in the table has M's simple
\* name, no message has E's simple name and no other enum has E's simple
\* name.
C14_RoundTripUnshadowed ==
    \A t \in JustIngested : Unshadowed(t[1], t[2], t[3]) => RoundTrip(t[1], t[2], t[3])

\* index_file has just ingested package a with message U and enum R, U has a
\* field of type R, and nothing else answers to U or R
C14_Witness ==
    \E t \in JustIngested :
        /\ Unshadowed(t[1], t[2], t[3])
        /\ \E k \in 1..Len(t[2].fields) : t[2].fields[k].type = t[3].name
        /\ RoundTrip(t[1], t[2], t[3])
        /\ Len(DictGet(ResolvedOf(GetMessage(Ix, t[2].name, TRUE, 10).result),
                       t[3].name).values) = 2

(***************************************************************************)
(* Properties of search (specification SpecQuery).                         *)
(***************************************************************************)
\* the position in seq of the first element named name, 0 when none is
PosByName(seq, name) ==
    IF \E p \in 1..Len(seq) : seq[p].name = name
    THEN CHOOSE p \in 1..Len(seq) :
            seq[p].name = name /\ \A q \in 1..(p - 1) : seq[q].name # name
    ELSE 0

\* the position in _search_entries of the first entry with the name and the
\* file of result r, 0 when there is none
EntryOf(r) ==
    LET hits == {p \in 1..Len(search_entries) :
                    search_entries[p][1] = r.name /\ search_entries[p][4] = r.file}
    IN IF hits = {} THEN 0 ELSE CHOOSE p \in hits : \A q \in hits : p <= q

\* C15: search returns the empty list for the empty query; otherwise it
\* returns at most limit results, each one of the results found, in order of
\* non-increasing score; results of equal score are in the order in which
\* they were found: a name match before a comment, field or rpc match, and
\* comment, field and rpc matches in the order of the search entries.
C15_SearchOrdered ==
    log.op = "search" =>
        LET out == log.ret
            found == Merged(Ix, log.query, log.limit, log.min_score)
        IN /\ log.query = <<>> => out = <<>>
           /\ log.query # <<>> =>
                 /\ Len(out) <= log.limit
                 /\ \A k \in 1..Len(out) : PosByName(found, out[k].name) # 0
                 /\ \A i \in 1..Len(out), j \in 1..Len(out) :
                       i < j =>
                          /\ out[i].score >= out[j].score
                          /\ out[i].score = out[j].score =>
                                /\ PosByName(found, out[i].name)
                                      < PosByName(found, out[j].name)
                                /\ out[j].match_type = "name"
                                      => out[i].match_type = "name"
                                /\ (out[i].match_type # "name"
                                    /\ out[j].match_type # "name")
                                      => EntryOf(out[i]) < EntryOf(out[j])

\* search("U", limit=2, min_score=100) returned the name match U and then
\* the field match b.c.A (field u), both with score 100
C15_Witness ==
    /\ log.op = "search"
    /\ log.limit = 2
    /\ Len(log.ret) = 2
    /\ log.ret[1].score = log.ret[2].score
    /\ log.ret[1].match_type = "name"
    /\ log.ret[2].match_type = "field"
    /\ Len(Merged(Ix, log.query, log.limit, log.min_score)) >= 2

\* the match_type of the first phase in which entry qualifies for the query:
\* its name scores at least min_score, else its comment does, else the name
\* of one of its fields (message) or rpcs (service) does; "none" otherwise
FirstQualifying(entry, query, min_score) ==
    LET obj == entry[3]
        children == IF entry[2] = "message" THEN obj.fields
                    ELSE IF entry[2] = "service" THEN obj.rpcs ELSE <<>>
    IN IF WRatio(query, entry[1]) >= min_score THEN "name"
       ELSE IF /\ obj.comment # NoComment
               /\ PartialRatio(Lower(query), Lower(obj.comment)) >= min_score
            THEN "comment"
       ELSE IF FirstChildHit(query, children, min_score) # 0
            THEN (IF entry[2] = "message" THEN "field" ELSE "rpc")
       ELSE "none"

\* C16: in every search result list each full name appears at most once and
\* every score is at least min_score; the match_type of a result is the
\* first phase, in the order name, comment, field / rpc, in which its entry
\* qualifies.
C16_SearchDeduplicated ==
    log.op = "search" =>
        /\ \A i \in 1..Len(log.ret), j \in 1..Len(log.ret) :
              log.ret[i].name = log.ret[j].name => i = j
        /\ \A k \in 1..Len(log.ret) :
              /\ log.ret[k].score >= log.min_score
              /\ EntryOf(log.ret[k]) # 0
              /\ log.ret[k].match_type =
                    FirstQualifying(search_entries[EntryOf(log.ret[k])],
                                    log.query, log.min_score)

\* C17: a search for the literal full name of a search entry, with limit >= 1
\* and min_score in 0..100, returns that entry first, as a name match with
\* the maximum score 100, and nowhere else in the list.
C17_ExactNameFirst ==
    (/\ log.op = "search"
     /\ log.limit >= 1
     /\ \E p \in 1..Len(search_entries) : search_entries[p][1] = log.query)
        => /\ Len(log.ret) >= 1
           /\ log.ret[1].name = log.query
           /\ log.ret[1].match_type = "name"
           /\ log.ret[1].score = 100
           /\ \A k \in 2..Len(log.ret) :
                 /\ log.ret[k].name # log.query
                 /\ log.ret[k].score <= 100

\* search("a.U") returned a.U first with score 100, ahead of a match with a
\* lower score, on an index where a.U is not the first search entry
C17_Witness ==
    /\ log.op = "search"
    /\ log.query = <<"a", ".", "U">>
    /\ Len(log.ret) >= 2
    /\ log.ret[1].name = log.query
    /\ log.ret[1].score = 100
    /\ log.ret[2].score < 100
    /\ search_entries[1][1] # log.query

\* what the call in log returns when it is made on the index as it is now
Recomputed ==
    CASE log.op = "search" -> Search(Ix, log.query, log.limit, log.min_score)
      [] log.op = "get_stats" -> GetStats(Ix)
      [] log.op = "get_enum" -> GetEnum(Ix, log.name)
      [] log.op = "get_message" ->
            GetMessage(Ix, log.name, log.resolve_types, log.max_depth)
      [] log.op = "get_service" ->
            GetService(Ix, log.name, log.resolve_types, log.max_depth)

\* the result of a query, without the counters kept for the other properties
Answer(ret) ==
    IF ret # None /\ DOMAIN ret = {"lookups", "frames", "result"}
    THEN ret.result
    ELSE IF ret # None /\ DOMAIN ret = {"lookups", "result"} THEN ret.result
    ELSE ret

QueryOps == {"search", "get_stats", "get_enum", "get_message", "get_service"}

\* C18: no step of search, get_service, get_message, get_enum (type
\* resolution included) or get_stats changes the file table, the three
\* full-name tables or the search-entry list; and the result a query has
\* returned is the result the same query returns on the index as it stands,
\* so that repeating it gives the same result.
C18_QueriesReadOnly ==
    /\ [][UNCHANGED index_vars]_vars
    /\ [](log.op \in QueryOps =>
             IF log.op \in {"search", "get_stats"}
             THEN log.ret = Recomputed
             ELSE Answer(log.ret) = Answer(Recomputed))

\* get_service has returned a result with resolved types from an index that
\* holds two files
C18_Witness ==
    /\ log.op = "get_service"
    /\ log.ret # None
    /\ ResolvedKeys(log.ret.result) # {}
    /\ Len(files) = 2
    /\ Len(search_entries) >= 4

(***************************************************************************)
(* The server (src/python-version/mcp_proto_server.py): run() awaits       *)
(* initialize(), which indexes the root, and only then serves the tools;   *)
(* a handler runs its ProtoIndex call to completion before the next        *)
(* request is handled.                                                     *)
(***************************************************************************)
\* run() has been entered and initialize() has not returned
Boot == [op |-> "boot"]

\* initialize() re-raised the failure of index_directory: run() is over
Failed == [op |-> "failed"]

InitServer ==
    /\ files = <<>>
    /\ services = <<>>
    /\ messages = <<>>
    /\ enums = <<>>
    /\ search_entries = <<>>
    /\ clock = 0
    /\ log = Boot
    /\ call = Idle
    /\ stack = <<>>
    /\ visited = {}
    /\ lookups = 0
    /\ frames = 0
    /\ NothingParsed

\* an indexing pass that may also start between two requests
BootingOrServing == log = Boot \/ log = NoCall

\* initialize() runs once, at the start of run()
Booting == log = Boot

\* initialize(): index_directory(proto_root), then get_stats() for the log
Initialize(root) ==
    /\ Booting
    /\ call = Idle
    /\ clock + Cardinality(Readable(root.listing)) <= MaxIngests
    /\ LET r == IndexDirectoryOp(Ix, root, clock + 1) IN
       /\ SetIx(r.ix)
       /\ clock' = clock + r.count
       /\ log' = IF r.raised THEN Failed ELSE NoCall
    /\ UNCHANGED <<resolver_vars, parser_vars>>

\* call_tool: search_proto, get_service_definition, get_message_definition
NextServer ==
    \/ \E root \in Roots : Initialize(root)
    \/ \E query \in SearchQueries, limit \in SearchLimits,
          min_score \in SearchMinScores : SearchCall(query, limit, min_score)
    \/ \E name \in QueryNames, a \in QueryArgs : GetServiceCall(name, a[1], a[2])
    \/ \E name \in QueryNames, a \in QueryArgs : GetMessageCall(name, a[1], a[2])
    \/ ResolveField
    \/ ResolveRpc
    \/ ResolveReturn
    \/ Respond

SpecServer == InitServer /\ [][NextServer]_vars

\* C19: the index changes only in the step of initialize(), taken while no
\* read is in progress and before any tool request has been handled; that
\* step ends the start-up, so no second mutation follows it and no tool
\* handler changes the index; every read starts and runs after it.
C19_ExclusiveWriter ==
    /\ [][index_vars' # index_vars
             => /\ log = Boot
                /\ log' \in {NoCall, Failed}
                /\ call = Idle /\ call' = Idle
                /\ stack = <<>> /\ stack' = <<>>]_vars
    /\ [][(log'.op \in QueryOps \/ call' # Idle) => log # Boot]_vars
    /\ [](log \in {Boot, Failed} => call = Idle)

\* get_service is resolving types on the index that initialize() built from
\* two files
C19_Witness ==
    /\ call # Idle
    /\ call.op = "get_service"
    /\ Len(stack) = 2
    /\ Len(files) = 2
    /\ log = NoCall

(***************************************************************************)
(* Re-indexing (specification Spec).                                       *)
(***************************************************************************)
\* C20: index_file(path) on a path that is in the file table leaves the
\* index as remove_file(path) followed by index_file(path) leaves it: the
\* table entries and search entries of the earlier document are replaced,
\* not accumulated.
C20_ReindexReplaces ==
    [][\A p \in Paths, t \in Texts :
          (IndexFile(p, t) /\ t.readable /\ DictHas(files, p))
             => IxNext = IndexFileOp(RemoveFileOp(Ix, p).ix, p, t, clock').ix]_vars

(***************************************************************************)
(* Properties of the type lookups of the resolution (SpecQuery).           *)
(***************************************************************************)
\* the entries of table that a type token names from the referring entity
\* context, at the first of the three lookup steps that finds any: the exact
\* full name; the package prefix of context + "." + token; the simple name
\* or a full-name suffix
LookupCandidates(table, token, context) ==
    LET prefix == PackagePrefix(context)
        exact == {i \in 1..Len(table) : table[i][1] = token}
        qualified == {i \in 1..Len(table) :
                         prefix # <<>> /\ table[i][1] = prefix \o <<".">> \o token}
        loose == {i \in 1..Len(table) :
                     \/ table[i][2].name = token
                     \/ EndsWith(table[i][1], <<".">> \o token)}
    IN IF exact # {} THEN exact
       ELSE IF qualified # {} THEN qualified
       ELSE loose

\* the definition emitted for token, if any, is what the lookup order asks
LookupOrdered(resolved, token, context, with_enums) ==
    LET ms == LookupCandidates(messages, token, context)
        es == LookupCandidates(enums, token, context)
    IN IF ms # {}
       THEN /\ DictHas(resolved, token)
            /\ DictGet(resolved, token).kind = "message"
            /\ \E i \in ms : DictGet(resolved, token).full_name = messages[i][1]
       ELSE IF with_enums /\ es # {}
       THEN /\ DictHas(resolved, token)
            /\ DictGet(resolved, token).kind = "enum"
            /\ \E i \in es : DictGet(resolved, token).full_name = enums[i][1]
       ELSE ~DictHas(resolved, token)

\* C21: each step of the resolution that looks a type token up emits the
\* message found by exact full name, else by the referring entity's package
\* prefix + "." + token, else by simple name or full-name suffix; for a
\* field, only when no message is found in any of the three steps the enum
\* found by the same three steps; so a token that names both a message and
\* an enum is emitted with kind 'message'.
C21_LookupOrder ==
    [][(/\ call # Idle
        /\ ~Finished(Top)
        /\ CurrentToken(Top) \notin visited
        /\ Top.kind = "message" => CurrentToken(Top) \notin Primitives)
          => LookupOrdered(stack'[Len(stack)].resolved, CurrentToken(Top),
                           Top.entity.full_name, Top.kind = "message")]_vars

\* the resolution of b.c.U has emitted A as the message b.c.A, found with
\* the package prefix, while an enum with the full name A is indexed
C21_Witness ==
    /\ call # Idle
    /\ call.op = "get_message"
    /\ Len(stack) = 2
    /\ stack[1].entity.full_name = <<"b", ".", "c", ".", "U">>
    /\ DictHas(stack[1].resolved, <<"A">>)
    /\ DictGet(stack[1].resolved, <<"A">>).kind = "message"
    /\ DictGet(stack[1].resolved, <<"A">>).full_name = <<"b", ".", "c", ".", "A">>
    /\ DictHas(enums, <<"A">>)
    /\ ~DictHas(messages, <<"A">>)

(***************************************************************************)
(* Property of the names the parser gives (Spec).                          *)
(***************************************************************************)
\* the entities of all kinds of an indexed file
EntitiesOfFile(file) ==
    {file.services[i] : i \in 1..Len(file.services)}
    \cup {file.messages[i] : i \in 1..Len(file.messages)}
    \cup {file.enums[i] : i \in 1..Len(file.enums)}

\* C22: every service, message and enum of a parsed file has the full name
\* package + "." + name when the package of the file is not empty and the
\* name alone otherwise; an enum declared inside a message gets the same
\* form, without the name of the enclosing message.
C22_FullNames ==
    \A i \in 1..Len(files) :
        \A e \in EntitiesOfFile(files[i][2]) :
            e.full_name = IF files[i][2].package # <<>>
                          THEN files[i][2].package \o <<".">> \o e.name
                          ELSE e.name

\* a file with a package whose enum N is declared inside message bool, and
\* a file without package, are indexed
C22_Witness ==
    /\ \E i \in 1..Len(files) :
           /\ files[i][2].package = <<"b", ".", "c">>
           /\ \E k \in 1..Len(files[i][2].enums) :
                  /\ files[i][2].enums[k].name = <<"N">>
                  /\ files[i][2].enums[k].full_name = <<"b", ".", "c", ".", "N">>
    /\ \E i \in 1..Len(files) :
           /\ files[i][2].package = <<>>
           /\ files[i][2].messages[1].full_name = <<"U">>

(***************************************************************************)
(* proto_parser: the comment pre-pass over the lines of a text and the     *)
(* comment of a construct.  A line is the sequence of its characters.      *)
(***************************************************************************)
MaxLines == 3

SPACE == <<" ">>

\* "// d"
Line_doc == <<"/", "/", " ", "d">>

\* "// e"
Line_doc2 == <<"/", "/", " ", "e">>

\* ""
Line_blank == <<>>

\* "//"
Line_bare == <<"/", "/">>

\* "x; // t"
Line_code == <<"x", ";", " ", "/", "/", " ", "t">>

\* "enum R {} // r"
Line_enumR == <<"e", "n", "u", "m", " ", "R", " ", "{", "}", " ", "/", "/", " ", "r">>

\* "enum RX {}"
Line_enumRX == <<"e", "n", "u", "m", " ", "R", "X", " ", "{", "}">>

SourceLines ==
    {Line_doc, Line_doc2, Line_blank, Line_bare, Line_code, Line_enumR,
     Line_enumRX}

\* content.split('\n')
Contents == UNION {[1..n -> SourceLines] : n \in 1..MaxLines}

ENUM == <<"e", "n", "u", "m">>

ConstructNames == {<<"R">>, <<"R", "X">>}

\* re.search(r'//(.*)$', line): where the first "//" starts, 0 without one
CommentStart(line) ==
    LET at == {i \in 1..(Len(line) - 1) : line[i] = "/" /\ line[i + 1] = "/"}
    IN IF at = {} THEN 0 ELSE CHOOSE i \in at : \A j \in at : i <= j

RECURSIVE LStrip(_)
LStrip(s) == IF s # <<>> /\ Head(s) = " " THEN LStrip(Tail(s)) ELSE s

RECURSIVE RStrip(_)
RStrip(s) ==
    IF s # <<>> /\ s[Len(s)] = " " THEN RStrip(SubSeq(s, 1, Len(s) - 1)) ELSE s

\* str.strip()
Strip(s) == RStrip(LStrip(s))

\* comment_match.group(1).strip() if comment_match else None; None and ""
\* are both false where comment is tested, and both are NoComment here
TrailingComment(line) ==
    IF CommentStart(line) = 0 THEN NoComment
    ELSE Strip(SubSeq(line, CommentStart(line) + 2, Len(line)))

\* re.sub(r'//.*$', '', line).strip()
LineWithoutComment(line) ==
    IF CommentStart(line) = 0 THEN Strip(line)
    ELSE Strip(SubSeq(line, 1, CommentStart(line) - 1))

\* ' '.join(parts)
RECURSIVE JoinSpace(_)
JoinSpace(parts) ==
    IF parts = <<>> THEN <<>>
    ELSE IF Len(parts) = 1 THEN parts[1]
    ELSE parts[1] \o SPACE \o JoinSpace(Tail(parts))

\* full_comment of a line that is not a standalone comment
FullComment(accumulated, comment) ==
    LET full_comment == IF accumulated # <<>> THEN JoinSpace(accumulated)
                        ELSE NoComment
    IN IF comment # <<>> /\ full_comment # NoComment
       THEN full_comment \o SPACE \o comment
       ELSE IF comment # <<>> THEN comment
       ELSE full_comment

\* an accumulator that is kept after the attachment
KeepComments(accumulated) == accumulated

\* current_comment = []
ResetComments(accumulated) == <<>>

\* needle in hay
IsSubstring(needle, hay) ==
    \E i \in 1..(Len(hay) - Len(needle) + 1) :
        SubSeq(hay, i, i + Len(needle) - 1) = needle

\* the names matched by r'enum\s+(\w+)\s*\{([^}]*)\}' in the joined lines
ExtractedEnums(ls) ==
    {name \in ConstructNames :
        \E i \in 1..Len(ls) : ls[i][1] = ENUM \o SPACE \o name \o <<" ", "{", "}">>}

\* the while loop of _find_comment_for_construct, from line j backwards
RECURSIVE PrecedingComments(_, _)
PrecedingComments(ls, j) ==
    IF j >= 1 /\ (ls[j][1] = <<>> \/ ls[j][2] # NoComment)
    THEN PrecedingComments(ls, j - 1)
            \o (IF ls[j][2] # NoComment THEN <<ls[j][2]>> ELSE <<>>)
    ELSE <<>>

\* _find_comment_for_construct, for a construct the block regex has matched
FindCommentForConstruct(ls, name, keyword) ==
    LET hits == {i \in 1..Len(ls) :
                    IsSubstring(keyword, ls[i][1]) /\ IsSubstring(name, ls[i][1])}
    IN IF hits = {} THEN NoComment
       ELSE LET i == CHOOSE h \in hits : \A k \in hits : h <= k
                comments == PrecedingComments(ls, i - 1)
                               \o (IF ls[i][2] # NoComment THEN <<ls[i][2]>>
                                   ELSE <<>>)
            IN IF comments # <<>> THEN JoinSpace(comments) ELSE NoComment

InitParse ==
    /\ files = <<>>
    /\ services = <<>>
    /\ messages = <<>>
    /\ enums = <<>>
    /\ search_entries = <<>>
    /\ clock = 0
    /\ log = NoCall
    /\ call = Idle
    /\ stack = <<>>
    /\ visited = {}
    /\ lookups = 0
    /\ frames = 0
    /\ content \in Contents
    /\ line_no = 0
    /\ current_comment = <<>>
    /\ lines = <<>>
    /\ attached = None

\* one iteration of the loop of _preprocess_content
ScanLine ==
    /\ line_no < Len(content)
    /\ LET line == content[line_no + 1]
           comment == TrailingComment(line)
           line_without_comment == LineWithoutComment(line)
       IN IF line_without_comment = <<>> /\ comment # <<>>
          THEN /\ current_comment' = Append(current_comment, comment)
               /\ UNCHANGED lines
          ELSE /\ lines' = Append(lines, <<line_without_comment,
                                           FullComment(current_comment, comment)>>)
               /\ current_comment' = ResetComments(current_comment)
    /\ line_no' = line_no + 1
    /\ UNCHANGED <<index_vars, clock, log, resolver_vars, content, attached>>

\* _extract_enums looks up the comment of an enum it has matched
FindComment(name) ==
    /\ line_no = Len(content)
    /\ attached = None
    /\ name \in ExtractedEnums(lines)
    /\ attached' = [keyword |-> ENUM, name |-> name,
                    comment |-> FindCommentForConstruct(lines, name, ENUM)]
    /\ UNCHANGED <<index_vars, clock, log, resolver_vars, content, line_no,
                   current_comment, lines>>

NextParse ==
    \/ ScanLine
    \/ \E name \in ConstructNames : FindComment(name)

SpecParse == InitParse /\ [][NextParse]_vars

(***************************************************************************)
(* Properties of the comment pre-pass (SpecParse).                         *)
(***************************************************************************)
\* a line with a comment text and nothing else
StandaloneComment(line) ==
    LineWithoutComment(line) = <<>> /\ TrailingComment(line) # <<>>

\* a line with nothing left once its trailing comment is taken off
EmptyWithoutComment(line) == LineWithoutComment(line) = <<>>

\* the lines of content[1..n] that are not in skipped, in order
KeptLines(n, skipped) ==
    SelectSeq([i \in 1..n |-> i], LAMBDA i : i \notin skipped)

\* the comment texts of the lines of content from a to b, in order
CommentsBetween(a, b) ==
    LET texts == [i \in 1..(b - a + 1) |-> TrailingComment(content[a + i - 1])]
    IN SelectSeq(texts, LAMBDA t : t # <<>>)

\* the output for the lines read so far when the lines in skipped yield no
\* output: each other line comes out, in order, without its comment and with
\* the comments of the skipped lines since the previous output joined by
\* spaces, its own comment last; the comments of the skipped lines after the
\* last output are the accumulator
PrePassOutput(skipped) ==
    LET kept == KeptLines(line_no, skipped)
        prev(j) == IF j = 1 THEN 0 ELSE kept[j - 1]
        last == IF kept = <<>> THEN 0 ELSE kept[Len(kept)]
    IN /\ Len(lines) = Len(kept)
       /\ \A j \in 1..Len(kept) :
              /\ lines[j][1] = LineWithoutComment(content[kept[j]])
              /\ lines[j][2] = JoinSpace(CommentsBetween(prev(j) + 1, kept[j]))
       /\ current_comment = CommentsBetween(last + 1, line_no)

\* C23 as stated: every line that is empty once its trailing comment is
\* taken off yields no output line and has its comment accumulated; the
\* first line after it that is not of that kind receives the accumulated
\* comments and its own, and the accumulator is reset.
C23_EmptyLinesYieldNoOutput ==
    PrePassOutput({i \in 1..line_no : EmptyWithoutComment(content[i])})

\* C23: every line that holds a comment text and nothing else yields no
\* output line and has its comment accumulated; every other line, a blank
\* line and a line with an empty comment included, yields an output line
\* that receives the accumulated comments joined by spaces followed by its
\* own trailing comment, and the accumulator is reset, so no comment text is
\* attached to more than one line.
C23_CommentPrePass ==
    PrePassOutput({i \in 1..line_no : StandaloneComment(content[i])})

\* two comment lines and a declaration with a trailing comment have been
\* read: one output line carries the three comments in order
C23_Witness ==
    /\ content = <<Line_doc, Line_doc2, Line_enumR>>
    /\ line_no = 3
    /\ lines = << <<ENUM \o <<" ", "R", " ", "{", "}">>,
                    <<"d", " ", "e", " ", "r">> >> >>
    /\ current_comment = <<>>


(***************************************************************************)
(* Property of the comment of a construct (SpecParse).                     *)
(***************************************************************************)
\* the line of content on which enum name is declared
DeclarationLine(name) ==
    LET at == {i \in 1..Len(content) :
                  LineWithoutComment(content[i])
                      = ENUM \o SPACE \o name \o <<" ", "{", "}">>}
    IN CHOOSE i \in at : \A j \in at : i <= j

\* the first of the lines without code that run up to line d
RECURSIVE RunStart(_)
RunStart(d) ==
    IF d > 1 /\ EmptyWithoutComment(content[d - 1]) THEN RunStart(d - 1) ELSE d

\* C24: the comment found for an enum is made of the comments of the lines
\* without code that immediately precede the line declaring that enum, and
\* of the trailing comment of that line, joined by spaces; nothing of a
\* preceding line with code, and nothing of the declaration of another enum
\* whose line contains the keyword and the name.
C24_CommentOfOwnDeclaration ==
    attached # None
        => LET d == DeclarationLine(attached.name)
           IN attached.comment = JoinSpace(CommentsBetween(RunStart(d), d))


(***************************************************************************)
(* Property of the completeness of the resolution (SpecQuery).             *)
(***************************************************************************)
RECURSIVE MessagesAt(_, _, _)
\* the messages a chain of exactly n references by non-primitive field types
\* leads to from the message root
MessagesAt(ix, root, n) ==
    IF n = 0 THEN {root}
    ELSE UNION {{FindMessageByType(ix, tok, D.full_name) :
                    tok \in RefTokens(D) \ Primitives} :
                   D \in MessagesAt(ix, root, n - 1)}
         \ {None}

\* the type tokens that resolve and that a chain of at most d references
\* from the message root ends in
ResolvableWithin(ix, root, d) ==
    UNION {{tok \in RefTokens(D) \ Primitives : Resolvable(ix, tok, D.full_name)} :
              D \in UNION {MessagesAt(ix, root, k) : k \in 0..(d - 1)}}

\* C25: get_message with max_depth = d >= 1 has in resolved_types every type
\* token that resolves to an indexed message or enum and that a chain of at
\* most d type references from the root ends in, whatever the order of the
\* fields and whatever longer chain reached the token first.
C25_CompleteWithinDepth ==
    (/\ log.op = "get_message"
     /\ log.resolve_types
     /\ log.max_depth >= 1
     /\ log.ret # None)
        => ResolvableWithin(Ix, RootOf(log), log.max_depth)
              \subseteq ResolvedKeys(log.ret.result)


(***************************************************************************)
(* Property of the tables against the file table (Spec).                   *)
(***************************************************************************)
\* the entity is one of that kind of a document of the file table
OwnedByIndexedFile(entity, kind) ==
    \E i \in 1..Len(files) :
        \E k \in 1..Len(DefsOfKind(files[i][2], kind)) :
            DefsOfKind(files[i][2], kind)[k] = entity

\* C26: after any sequence of index_file and remove_file calls, every entry
\* of the service, message and enum tables and every search entry is an
\* entity of a document that is in the file table.
C26_NoStaleEntity ==
    /\ \A kind \in Kinds :
          \A i \in 1..Len(TableOf(Ix, kind)) :
              OwnedByIndexedFile(TableOf(Ix, kind)[i][2], kind)
    /\ \A p \in 1..Len(search_entries) :
          /\ DictHas(files, search_entries[p][4])
          /\ OwnedByIndexedFile(search_entries[p][3], search_entries[p][2])


(***************************************************************************)
(* Property of the file reported with a definition (SpecQuery).            *)
(***************************************************************************)
\* file_path is the path of the document of the file table that holds this
\* entity object
ReportsOwner(file_path, entity) ==
    \A i \in 1..Len(files) :
        files[i][2].oid = entity.oid => file_path = files[i][1]

\* C27: the 'file' of the result of get_service, get_message and get_enum,
\* and of each definition of resolved_types, is the path of the document
\* that holds the entity returned, also when several indexed documents
\* declare the same full name.
C27_FileOfReturnedEntity ==
    (log.op \in LookupOps /\ log.ret # None)
        => /\ ReportsOwner(log.ret.result.file, RootOf(log))
           /\ \A token \in ResolvedKeys(log.ret.result) :
                 LET def == DictGet(log.ret.result.resolved_types, token)
                 IN ReportsOwner(def.file,
                                 DictGet(TableOf(Ix, def.kind), def.full_name))


(***************************************************************************)
(* Property of the search results against the tables (SpecQuery).          *)
(***************************************************************************)
\* C28: for each result r of a search, the table of r.type has an entry with
\* the full name r.name, the child names and the count that r reports are
\* those of that entry, and r.file is the file of that entry: the one the
\* exact lookup reports for it, or the document that holds it.
C28_SearchAgreesWithLookup ==
    log.op = "search"
        => \A k \in 1..Len(log.ret) :
              LET r == log.ret[k]
                  entity == DictGet(TableOf(Ix, r.type), r.name)
              IN /\ entity # None
                 /\ \A f \in DOMAIN ChildNames(r.type, entity) \cap DOMAIN r :
                       r[f] = ChildNames(r.type, entity)[f]
                 /\ \/ r.file = FindFileForDefinition(Ix, r.name, r.type)
                    \/ \E i \in 1..Len(files) :
                          files[i][2].oid = entity.oid /\ files[i][1] = r.file


(***************************************************************************)
(* Property of the preference for the referring entity's package           *)
(* (SpecQuery).                                                            *)
(***************************************************************************)
\* C29: when the package of the referring entity declares a message, or for
\* a field type an enum, whose simple name is the type token, the definition
\* emitted for the token is that entity of the same package, whatever
\* entities of the same simple name without package or in other packages
\* are indexed.
C29_PackageLocalFirst ==
    [][(/\ call # Idle
        /\ ~Finished(Top)
        /\ CurrentToken(Top) \notin visited
        /\ Top.kind = "message" => CurrentToken(Top) \notin Primitives)
          => LET token == CurrentToken(Top)
                 package == PackagePrefix(Top.entity.full_name)
                 local == IF package # <<>> THEN package \o <<".">> \o token
                          ELSE token
                 emitted == stack'[Len(stack)].resolved
             IN (\/ DictHas(messages, local)
                 \/ Top.kind = "message" /\ DictHas(enums, local))
                   => /\ DictHas(emitted, token)
                      /\ DictGet(emitted, token).full_name = local]_vars


(***************************************************************************)
(* Property of the order of the tables and of the lookup by simple name    *)
(* (Spec).                                                                 *)
(***************************************************************************)
SimpleNames == {<<"U">>, <<"A">>, <<"S">>}

\* what get_service / get_message / get_enum returns for name, without
\* resolution
GetOfKind(ix, kind, name) ==
    CASE kind = "service" -> GetService(ix, name, FALSE, 0)
      [] kind = "message" -> GetMessage(ix, name, FALSE, 0)
      [] kind = "enum" -> GetEnum(ix, name)

\* C30: each mutating call leaves the full names that stay in a table in
\* their order (an overwritten full name keeps its position) and puts those
\* it inserts, an evicted and re-ingested one included, after them; and when
\* no entry has the name as its full name and several match it by suffix or
\* simple name, get_service / get_message / get_enum return the match that
\* comes first in that order, the one whose full name was inserted first.
C30_FirstInsertedWins ==
    /\ [](\A kind \in Kinds : \A name \in SimpleNames :
             LET table == TableOf(Ix, kind)
                 matches == {i \in 1..Len(table) :
                                \/ table[i][2].name = name
                                \/ EndsWith(table[i][1], <<".">> \o name)}
                 got == GetOfKind(Ix, kind, name)
             IN (~DictHas(table, name) /\ matches # {})
                   => /\ got # None
                      /\ \E i \in matches :
                            /\ \A j \in matches : i <= j
                            /\ got.result.full_name = table[i][1])
    /\ [][\A kind \in Kinds :
             LET old == TableOf(Ix, kind)
                 new == TableOf(IxNext, kind)
                 \* the entries of old whose full name is still in new
                 kept == SelectSeq(old, LAMBDA e : DictHas(new, e[1]))
             IN /\ Len(kept) <= Len(new)
                /\ \A k \in 1..Len(kept) : new[k][1] = kept[k][1]
                /\ \A k \in (Len(kept) + 1)..Len(new) :
                      ~DictHas(old, new[k][1])]_vars

\* p1.proto (package a) was ingested, evicted and ingested again after
\* p2.proto (package b.c): a.U is now behind b.c.U in the message table and
\* get_message("U") returns b.c.U
C30_Witness ==
    /\ Len(files) = 2
    /\ files[1][1] = "p2.proto" /\ files[1][2].oid = 2
    /\ files[2][1] = "p1.proto" /\ files[2][2].oid = 3
    /\ messages[1][1] = <<"b", ".", "c", ".", "U">>
    /\ messages[Len(messages)][1] = <<"a", ".", "U">>
    /\ messages[Len(messages)][2].oid = 3
    /\ ~DictHas(messages, <<"U">>)
    /\ GetMessage(Ix, <<"U">>, FALSE, 0).result.full_name
          = <<"b", ".", "c", ".", "U">>

====
